---------------------------- MODULE Spec2Model ----------------------------
(***************************************************************************)
(* Model of the radiology report extraction heuristics of                 *)
(* src/app/main.py, src/app/radiology_extractor.py and src/app.py.        *)
(*                                                                         *)
(* Texts are TLA+ strings; a character is a string of length one.  The    *)
(* pure functions of the source (classifier, coherence validator, date    *)
(* and patient parsers, section splitters) are operators computed the way *)
(* the code computes them; each specification draws the inputs of one     *)
(* component from a bounded set in its Init and applies the functions in  *)
(* its actions.                                                            *)
(***************************************************************************)
EXTENDS Integers, Sequences, FiniteSets, TLC

VARIABLES
    module,          \* which source file's variant runs: "main", "extractor", "app"
    pc,              \* position of the call being modelled
    exam_text,       \* determine_specialty / validate_exam_technique_coherence: exam argument
    technique_text,  \* ... and technique argument
    specialty,       \* value returned by determine_specialty
    coherence,       \* <<bool, reason>> returned by validate_exam_technique_coherence
    text,            \* the report text handed to the field extractors
    exam_date,       \* value returned by extract_date: <<year, month, day>> or NoDate
    patient_info,    \* dict returned by extract_patient_info: a function on its keys
    sections,        \* dict returned by extract_sections / parse_sections
    hashseed,        \* the process's string hash seed: fixes the iteration order of a set
    previous,        \* the section map an earlier run of the splitter returned
    pdf,             \* the PDF handed to the text extraction: what its readers and the OCR yield
    primary_text,    \* the text obtained from the primary extractor
    ocr_invoked,     \* whether the OCR fallback has been called
    extracted,       \* how the text extraction ended: the text returned or the exception raised
    endpoint,        \* the entry point called: "extract_from_text", "extract_from_pdf", "process_directory"
    filename,        \* the name of the file the report comes from
    pads_year,       \* whether the build's strftime pads %Y to four digits
    report,          \* what extract_complete_report / extract_report returned
    store,           \* the rows of the table reports, in rowid order
    db_error,        \* whether the write to the store raised
    saved,           \* what save_report_to_db / save_report returned
    response,        \* the answer of the endpoint, or the entry of stats["details"]
    listing,         \* the answer of get_reports
    history,         \* the reports written to the store so far, in the order of the writes
    directory,       \* the PDF files process_directory finds, in the order of the glob
    pending,         \* those of them that the loop has not reached yet
    stats            \* the dict stats of process_directory

classifyVars == <<exam_text, technique_text, specialty, coherence>>
fieldVars == <<exam_date, patient_info, sections, hashseed, previous>>
textVars == <<pdf, primary_text, ocr_invoked, extracted>>
reportVars ==
    <<endpoint, filename, pads_year, report, store, db_error, saved, response, listing,
      history>>
dirVars == <<directory, pending, stats>>
vars == <<module, pc, classifyVars, text, fieldVars, textVars, reportVars, dirVars>>

\* The value of a variable that holds no result yet (Python's None).
None == "<None>"

\* extract_date returning None
NoDate == << >>

\* the empty dict  info = {}
NoInfo == << >>

\* no section map has been returned
NoSections == << >>

\* no PDF is being read
NoPdf == << >>

\* the variables of process_directory hold nothing
IdleDirectory ==
    /\ directory = << >>
    /\ pending = << >>
    /\ stats = << >>

\* the variables of the report pipeline and of the store hold nothing
IdleReport ==
    /\ endpoint = None
    /\ filename = None
    /\ pads_year = TRUE
    /\ report = << >>
    /\ store = << >>
    /\ db_error = FALSE
    /\ saved = << >>
    /\ response = << >>
    /\ listing = << >>
    /\ history = << >>

\* the variables of the text extraction hold nothing
IdleText ==
    /\ pdf = NoPdf
    /\ primary_text = ""
    /\ ocr_invoked = FALSE
    /\ extracted = None

\* the variables of the classification hold nothing
IdleClassify ==
    /\ exam_text = ""
    /\ technique_text = ""
    /\ specialty = None
    /\ coherence = None

\* no field has been extracted
NoFields ==
    /\ exam_date = NoDate
    /\ patient_info = NoInfo
    /\ sections = NoSections
    /\ hashseed = 0
    /\ previous = NoSections

(***************************************************************************)
(* Strings                                                                 *)
(***************************************************************************)
UpperChars == "ABCDEFGHIJKLMNOPQRSTUVWXYZÉÈÊÀÂÎÔÛÇ"
LowerChars == "abcdefghijklmnopqrstuvwxyzéèêàâîôûç"

CharAt(s, i) == SubSeq(s, i, i)

CharsOf(s) == {CharAt(s, i) : i \in 1..Len(s)}

UpperSet == CharsOf(UpperChars)
LowerSet == CharsOf(LowerChars)

\* the table mapping the i-th character of from to the i-th character of to
RECURSIVE CaseTable(_, _, _)
CaseTable(from, to, i) ==
    IF i > Len(from) THEN << >>
    ELSE (CharAt(from, i) :> CharAt(to, i)) @@ CaseTable(from, to, i + 1)

LowerMap == CaseTable(UpperChars, LowerChars, 1)

UpperMap == CaseTable(LowerChars, UpperChars, 1)

LowerChar(c) == IF c \in UpperSet THEN LowerMap[c] ELSE c

\* str.lower(), character by character (the two halves are lowered separately
\* to keep the recursion shallow)
RECURSIVE lower(_)
lower(s) ==
    IF Len(s) = 0 THEN ""
    ELSE IF Len(s) = 1 THEN LowerChar(s)
    ELSE lower(SubSeq(s, 1, Len(s) \div 2)) \o lower(SubSeq(s, Len(s) \div 2 + 1, Len(s)))

\* Python's  k in t  for strings
Contains(k, t) ==
    \E i \in 1..(Len(t) - Len(k) + 1) : SubSeq(t, i, i + Len(k) - 1) = k

\* any(keyword in text for keyword in keywords), keywords a sequence
AnyIn(keywords, t) == \E i \in 1..Len(keywords) : Contains(keywords[i], t)

Min(S) == CHOOSE x \in S : \A y \in S : x <= y

Range(f) == {f[i] : i \in DOMAIN f}

\* " ".join(words)
RECURSIVE JoinSpace(_)
JoinSpace(words) ==
    IF Len(words) = 0 THEN ""
    ELSE IF Len(words) = 1 THEN words[1]
    ELSE words[1] \o " " \o JoinSpace(Tail(words))

\* sequences over S of length lo..hi
SeqsUpTo(S, lo, hi) == UNION {[1..n -> S] : n \in lo..hi}

(***************************************************************************)
(* Specialty classifier                                                    *)
(***************************************************************************)
SPECIALTIES ==
    << "Breast", "Cardiac", "Gastrointestinal", "Genitourinary", "IA",
       "Interventional", "MSK", "Neuroradiology Brain", "Neuroradiology ORL",
       "Nuclearetmolecular", "Obstetrical", "Pediatrics", "Physics",
       "Spine", "Thoracic", "Vascular" >>

\* C2 mutant: the "rachis" entry mapped to another specialty.
EXAM_TO_SPECIALTY_RachisMSK ==
    << <<"tdm cérébrale", "Neuroradiology Brain">>,
       <<"tdm cerebrale", "Neuroradiology Brain">>,
       <<"irm cérébrale", "Neuroradiology Brain">>,
       <<"irm cerebrale", "Neuroradiology Brain">>,
       <<"ct cérébrale", "Neuroradiology Brain">>,
       <<"perfusion", "Neuroradiology Brain">>,
       <<"carotides", "Neuroradiology ORL">>,
       <<"polygone de willis", "Neuroradiology Brain">>,
       <<"rachis", "MSK">>,
       <<"thorax", "Thoracic">>,
       <<"abdomen", "Gastrointestinal">>,
       <<"pelvis", "Genitourinary">> >>

\* The dict in insertion order, which is its iteration order.
EXAM_TO_SPECIALTY ==
    << <<"tdm cérébrale", "Neuroradiology Brain">>,
       <<"tdm cerebrale", "Neuroradiology Brain">>,
       <<"irm cérébrale", "Neuroradiology Brain">>,
       <<"irm cerebrale", "Neuroradiology Brain">>,
       <<"ct cérébrale", "Neuroradiology Brain">>,
       <<"perfusion", "Neuroradiology Brain">>,
       <<"carotides", "Neuroradiology ORL">>,
       <<"polygone de willis", "Neuroradiology Brain">>,
       <<"rachis", "Spine">>,
       <<"thorax", "Thoracic">>,
       <<"abdomen", "Gastrointestinal">>,
       <<"pelvis", "Genitourinary">> >>

brain_keywords(m) ==
    IF m = "main"
    THEN <<"cérébr", "cerveau", "encéphale", "crâne", "crânien">>
    ELSE <<"cérébr", "cerveau", "encéphale", "crâne", "crânien", "brain", "cerebral">>

orl_keywords(m) ==
    IF m = "main"
    THEN <<"carotide", "sinus", "oro", "facial">>
    ELSE <<"carotide", "sinus", "oro", "facial", "neck">>

spine_keywords(m) ==
    IF m = "main"
    THEN <<"rachis", "vertébr", "cervical", "lombaire">>
    ELSE <<"rachis", "vertébr", "spine", "cervical", "lombaire">>

thoracic_keywords(m) ==
    IF m = "main"
    THEN <<"thorax", "poumon", "pulmon", "thoracique">>
    ELSE <<"thorax", "poumon", "pulmon", "thoracique", "pulmonary">>

\* C1 mutant: a default outside the enumeration.
DefaultSpecialty_Unknown == "Unknown"

\* return "IA"
DefaultSpecialty == "IA"

\* C3 mutant: the spine group tested before the ORL group.
KeywordGroupChain_SpineFirst(m, combined_text) ==
    IF AnyIn(brain_keywords(m), combined_text) THEN "Neuroradiology Brain"
    ELSE IF AnyIn(spine_keywords(m), combined_text) THEN "Spine"
    ELSE IF AnyIn(orl_keywords(m), combined_text) THEN "Neuroradiology ORL"
    ELSE IF AnyIn(thoracic_keywords(m), combined_text) THEN "Thoracic"
    ELSE DefaultSpecialty

\* the if / elif chain over the four keyword groups, then the default
KeywordGroupChain(m, combined_text) ==
    IF AnyIn(brain_keywords(m), combined_text) THEN "Neuroradiology Brain"
    ELSE IF AnyIn(orl_keywords(m), combined_text) THEN "Neuroradiology ORL"
    ELSE IF AnyIn(spine_keywords(m), combined_text) THEN "Spine"
    ELSE IF AnyIn(thoracic_keywords(m), combined_text) THEN "Thoracic"
    ELSE DefaultSpecialty

\* for keyword, specialty in EXAM_TO_SPECIALTY.items(): first hit returns
RECURSIVE TableLookup(_, _)
TableLookup(combined_text, i) ==
    IF i > Len(EXAM_TO_SPECIALTY) THEN None
    ELSE IF Contains(EXAM_TO_SPECIALTY[i][1], combined_text)
         THEN EXAM_TO_SPECIALTY[i][2]
         ELSE TableLookup(combined_text, i + 1)

CombinedText(exam, technique) == lower(exam \o " " \o technique)

\* the table's answer if it has one, else the keyword groups'
TableThenGroups(m, combined_text, hit) ==
    IF hit # None THEN hit ELSE KeywordGroupChain(m, combined_text)

determine_specialty(m, exam, technique) ==
    TableThenGroups(m, CombinedText(exam, technique),
                    TableLookup(CombinedText(exam, technique), 1))

(***************************************************************************)
(* Coherence validator (radiology_extractor.py only)                       *)
(***************************************************************************)
checks ==
    << <<"tdm", <<"tomodensitométrie", "acquisition", "reconstruction", "spiralée">> >>,
       <<"irm", <<"imagerie par résonance", "résonance", "irm">> >>,
       <<"perfusion", <<"perfusion", "injection">> >>,
       <<"angio", <<"angio", "vasculaire", "artériel">> >>,
       <<"carotide", <<"carotide", "vasculaire", "artériel">> >> >>

\* C4 mutant: a missing technique treated as incoherent.
MissingTechnique_Incoherent == <<FALSE, "Technique manquante">>

MissingTechnique == <<TRUE, "Technique manquante mais acceptable">>

IncoherentReason(exam_term) ==
    "'" \o exam_term \o "' dans examen mais pas cohérent avec technique"

\* the loop over checks: the first violated rule returns
RECURSIVE CheckLoop(_, _, _)
CheckLoop(exam_lower, technique_lower, i) ==
    IF i > Len(checks) THEN <<TRUE, "OK">>
    ELSE IF /\ Contains(checks[i][1], exam_lower)
            /\ ~ AnyIn(checks[i][2], technique_lower)
         THEN <<FALSE, IncoherentReason(checks[i][1])>>
         ELSE CheckLoop(exam_lower, technique_lower, i + 1)

validate_exam_technique_coherence(exam, technique) ==
    IF exam = "" /\ technique = "" THEN <<TRUE, "Aucune information">>
    ELSE IF exam = "" THEN <<FALSE, "Examen manquant">>
    ELSE IF technique = "" THEN MissingTechnique
    ELSE CheckLoop(lower(exam), lower(technique), 1)

(***************************************************************************)
(* Classification: the two calls extract_report makes on                   *)
(* sections['exam_type'] and sections['technique'].                        *)
(***************************************************************************)
MaxExamWords == 2

ExamWords ==
    { "rachis", "TDM cérébrale", "perfusion", "carotides", "IRM", "tdm",
      "cérébrale", "sinus", "lombaire", "thorax", "genou", "angio" }

TechniqueTexts ==
    { "", "acquisition spiralée", "irm", "injection", "Rachis cervical",
      "carotide", "poumon", "cérébrale", "Artériel", "coupes fines" }

ExamTexts == {JoinSpace(w) : w \in SeqsUpTo(ExamWords, 0, MaxExamWords)}

InitClassify ==
    /\ module \in {"main", "extractor"}
    /\ pc = "start"
    /\ exam_text \in ExamTexts
    /\ technique_text \in TechniqueTexts
    /\ specialty = None
    /\ coherence = None
    /\ text = ""
    /\ NoFields
    /\ IdleText
    /\ IdleReport
    /\ IdleDirectory

DetermineSpecialty ==
    /\ pc = "start"
    /\ specialty' = determine_specialty(module, exam_text, technique_text)
    /\ pc' = "classified"
    /\ UNCHANGED <<module, exam_text, technique_text, coherence, text, fieldVars, textVars, reportVars, dirVars>>

ValidateCoherence ==
    /\ pc = "classified"
    /\ module = "extractor"
    /\ coherence' = validate_exam_technique_coherence(exam_text, technique_text)
    /\ pc' = "validated"
    /\ UNCHANGED <<module, exam_text, technique_text, specialty, text, fieldVars, textVars, reportVars, dirVars>>

NextClassify == DetermineSpecialty \/ ValidateCoherence

SpecClassify == InitClassify /\ [][NextClassify]_vars

(***************************************************************************)
(* Regular expressions (Python's re, backtracking in priority order)       *)
(*                                                                         *)
(* A pattern is a sequence of nodes.  Positions are 1-based: position i is *)
(* just before character i, and a match <<s, e>> covers characters         *)
(* s .. e-1.  A capture that did not take part in the match is <<0, 0>>.   *)
(***************************************************************************)
Digits == CharsOf("0123456789")
AsciiUpper == CharsOf("ABCDEFGHIJKLMNOPQRSTUVWXYZ")
AsciiLower == CharsOf("abcdefghijklmnopqrstuvwxyz")
Whitespace == {" ", "\t", "\n", "\r", "\f"}
WordChars == UpperSet \cup LowerSet \cup Digits \cup {"_"}

UpperChar(c) == IF c \in LowerSet THEN UpperMap[c] ELSE c

\* pattern constructors
Cls(S) == << [t |-> "set", neg |-> FALSE, cs |-> S] >>
NotCls(S) == << [t |-> "set", neg |-> TRUE, cs |-> S] >>
Lit(s) == << [t |-> "lit", s |-> s] >>
AnyChar == << [t |-> "any"] >>
Rep(r, min, max) == << [t |-> "rep", r |-> r, min |-> min, max |-> max, greedy |-> TRUE] >>
Lazy(r, min, max) == << [t |-> "rep", r |-> r, min |-> min, max |-> max, greedy |-> FALSE] >>
Star(r) == Rep(r, 0, -1)
Plus(r) == Rep(r, 1, -1)
Opt(r) == Rep(r, 0, 1)
Grp(k, r) == << [t |-> "grp", k |-> k, r |-> r] >>
Alt(alts) == << [t |-> "alt", alts |-> alts] >>
Look(r) == << [t |-> "look", r |-> r] >>
EndOfString == << [t |-> "eos"] >>
StartOfString == << [t |-> "bos"] >>
WordBoundary == << [t |-> "wordb"] >>

\* flags
NoFlags == [ic |-> FALSE, dotall |-> FALSE, multiline |-> FALSE]
IGNORECASE == [ic |-> TRUE, dotall |-> FALSE, multiline |-> FALSE]
IGNORECASE_DOTALL == [ic |-> TRUE, dotall |-> TRUE, multiline |-> FALSE]
IGNORECASE_MULTILINE == [ic |-> TRUE, dotall |-> FALSE, multiline |-> TRUE]
MULTILINE == [ic |-> FALSE, dotall |-> FALSE, multiline |-> TRUE]

InClass(c, n, fl) ==
    LET hit == \/ c \in n.cs
               \/ fl.ic /\ (LowerChar(c) \in n.cs \/ UpperChar(c) \in n.cs)
    IN  IF n.neg THEN ~ hit ELSE hit

\* one character of txt against a character class or the dot
CharMatches(txt, i, n, fl) ==
    IF n.t = "any" THEN fl.dotall \/ CharAt(txt, i) # "\n"
    ELSE InClass(CharAt(txt, i), n, fl)

\* the literal s at position i of txt
LitMatches(txt, i, s, fl) ==
    /\ i + Len(s) - 1 <= Len(txt)
    /\ IF fl.ic
       THEN \A k \in 1..Len(s) : LowerChar(CharAt(txt, i + k - 1)) = LowerChar(CharAt(s, k))
       ELSE SubSeq(txt, i, i + Len(s) - 1) = s

\* how many characters from position i on match the one-character node n
RunLength(txt, i, n, fl) ==
    IF n.t = "any" /\ fl.dotall THEN Len(txt) + 1 - i
    ELSE (CHOOSE j \in i..(Len(txt) + 1) :
            /\ j = Len(txt) + 1 \/ ~ CharMatches(txt, j, n, fl)
            /\ \A k \in i..(j - 1) : CharMatches(txt, k, n, fl)) - i

IsWordAt(txt, i) == i >= 1 /\ i <= Len(txt) /\ CharAt(txt, i) \in WordChars

AtStart(txt, i, fl) ==
    \/ i = 1
    \/ fl.multiline /\ CharAt(txt, i - 1) = "\n"

AtEnd(txt, i, fl) ==
    \/ i = Len(txt) + 1
    \/ i = Len(txt) /\ CharAt(txt, i) = "\n"
    \/ fl.multiline /\ i <= Len(txt) /\ CharAt(txt, i) = "\n"

Fail == [ok |-> FALSE, end |-> 0, caps |-> << >>]

NoCaps(ng) == [k \in 1..ng |-> <<0, 0>>]

\* the first attempt if it matched, otherwise the second
OrElse(first, second) == IF first.ok THEN first ELSE second

\* Among the attempts <<count or position, result>> that matched, the result
\* of the one with the largest (or smallest) first component.
PickMatch(tries, largest) ==
    LET good == {r \in tries : r[2].ok}
    IN  IF good = {} THEN Fail
        ELSE IF largest
        THEN (CHOOSE r \in good : \A q \in good : q[1] <= r[1])[2]
        ELSE (CHOOSE r \in good : \A q \in good : q[1] >= r[1])[2]

\* The first way, in the engine's priority order (an alternative before the
\* next, a greedy repeat longest first, a lazy repeat shortest first), in
\* which the node sequence matches txt from position i.
RECURSIVE Match(_, _, _, _, _)

\* a lookahead that matched keeps its captures and consumes nothing
AfterLookahead(ahead, rest, txt, i, fl) ==
    IF ahead.ok THEN Match(rest, txt, i, ahead.caps, fl) ELSE Fail

Match(nodes, txt, i, caps, fl) ==
    IF Len(nodes) = 0 THEN [ok |-> TRUE, end |-> i, caps |-> caps]
    ELSE
      LET n == Head(nodes)
          rest == Tail(nodes)
      IN  CASE n.t = "lit" ->
                 IF LitMatches(txt, i, n.s, fl)
                 THEN Match(rest, txt, i + Len(n.s), caps, fl)
                 ELSE Fail
            [] n.t \in {"set", "any"} ->
                 IF i <= Len(txt) /\ CharMatches(txt, i, n, fl)
                 THEN Match(rest, txt, i + 1, caps, fl)
                 ELSE Fail
            [] n.t = "grp" ->
                 Match(n.r \o << [t |-> "close", k |-> n.k, s |-> i] >> \o rest,
                       txt, i, caps, fl)
            [] n.t = "close" ->
                 Match(rest, txt, i, [caps EXCEPT ![n.k] = <<n.s, i>>], fl)
            [] n.t = "alt" ->
                 IF Len(n.alts) = 0 THEN Fail
                 ELSE OrElse(Match(Head(n.alts) \o rest, txt, i, caps, fl),
                             Match(<< [n EXCEPT !.alts = Tail(n.alts)] >> \o rest,
                                   txt, i, caps, fl))
            [] n.t = "rep" /\ Len(n.r) = 1 /\ n.r[1].t \in {"set", "any"} ->
                 \* a repeated single character: the counts the rest of the
                 \* pattern accepts, the largest (greedy) or smallest (lazy) wins
                 LET run == RunLength(txt, i, n.r[1], fl)
                     most == IF n.max >= 0 /\ run > n.max THEN n.max ELSE run
                 IN  PickMatch({<<c, Match(rest, txt, i + c, caps, fl)>> : c \in n.min..most},
                               n.greedy)
            [] n.t = "rep" /\ ~ (Len(n.r) = 1 /\ n.r[1].t \in {"set", "any"}) ->
                 LET next == [n EXCEPT !.min = IF n.min > 0 THEN n.min - 1 ELSE 0,
                                       !.max = IF n.max > 0 THEN n.max - 1 ELSE n.max]
                 IN  IF n.min > 0 THEN Match(n.r \o <<next>> \o rest, txt, i, caps, fl)
                     ELSE IF n.max = 0 THEN Match(rest, txt, i, caps, fl)
                     ELSE IF n.greedy
                     THEN OrElse(Match(n.r \o <<next>> \o rest, txt, i, caps, fl),
                                 Match(rest, txt, i, caps, fl))
                     ELSE OrElse(Match(rest, txt, i, caps, fl),
                                 Match(n.r \o <<next>> \o rest, txt, i, caps, fl))
            [] n.t = "look" ->
                 AfterLookahead(Match(n.r, txt, i, caps, fl), rest, txt, i, fl)
            [] n.t = "eos" ->
                 IF AtEnd(txt, i, fl) THEN Match(rest, txt, i, caps, fl) ELSE Fail
            [] n.t = "bos" ->
                 IF AtStart(txt, i, fl) THEN Match(rest, txt, i, caps, fl) ELSE Fail
            [] n.t = "wordb" ->
                 IF IsWordAt(txt, i - 1) # IsWordAt(txt, i)
                 THEN Match(rest, txt, i, caps, fl)
                 ELSE Fail

NoMatch == [ok |-> FALSE, start |-> 0, end |-> 0, caps |-> << >>]

\* the attempts <<position, result>> to match the pattern at each position
\* of txt from i on
Attempts(pattern, txt, i, ng, fl) ==
    {<<j, Match(pattern, txt, j, NoCaps(ng), fl)>> : j \in i..(Len(txt) + 1)}

\* the match at the leftmost position among the attempts
Leftmost(tries) ==
    LET good == {r \in tries : r[2].ok}
    IN  IF good = {} THEN NoMatch
        ELSE LET r == CHOOSE r \in good : \A q \in good : q[1] >= r[1]
             IN  [ok |-> TRUE, start |-> r[1], end |-> r[2].end, caps |-> r[2].caps]

\* re.search from position i on: the match at the leftmost position that has one
Search(pattern, txt, i, ng, fl) == Leftmost(Attempts(pattern, txt, i, ng, fl))

\* where the scan resumes after a match: at its end, one further if it is empty
ResumeAt(m) == IF m.end > m.start THEN m.end ELSE m.end + 1

RECURSIVE MatchesFrom(_, _)

\* the match m, then the matches after it
MatchThenRest(tries, m) ==
    IF ~ m.ok THEN << >> ELSE <<m>> \o MatchesFrom(tries, ResumeAt(m))

\* the leftmost match from position i on, then the matches after it
MatchesFrom(tries, i) == MatchThenRest(tries, Leftmost({r \in tries : r[1] >= i}))

\* re.finditer: the non-overlapping matches, left to right
FindIter(pattern, txt, i, ng, fl) == MatchesFrom(Attempts(pattern, txt, i, ng, fl), i)

\* re.sub: the text with every match replaced by repl
RECURSIVE Splice(_, _, _, _, _)
Splice(txt, matches, j, from, repl) ==
    IF j > Len(matches) THEN SubSeq(txt, from, Len(txt))
    ELSE SubSeq(txt, from, matches[j].start - 1) \o repl
         \o Splice(txt, matches, j + 1, matches[j].end, repl)

Sub(pattern, repl, txt, fl) == Splice(txt, FindIter(pattern, txt, 1, 0, fl), 1, 1, repl)

\* match.group(k)
GroupText(txt, m, k) ==
    IF m.caps[k] = <<0, 0>> THEN None
    ELSE SubSeq(txt, m.caps[k][1], m.caps[k][2] - 1)

\* \s  \d  and the date token  \d{1,2}[./-]\d{1,2}[./-]\d{4}
Sp == Cls(Whitespace)
Dg == Cls(Digits)
DateSeparators == {".", "/", "-"}
DateToken ==
    Rep(Dg, 1, 2) \o Cls(DateSeparators) \o Rep(Dg, 1, 2) \o Cls(DateSeparators)
        \o Rep(Dg, 4, 4)

(***************************************************************************)
(* extract_date                                                            *)
(***************************************************************************)
date_patterns(m) ==
    LET common ==
          << Lit("Examen(s)") \o Plus(Sp) \o Lit("du") \o Plus(Sp) \o Grp(1, DateToken),
             Lit("le") \o Plus(Sp) \o Grp(1, DateToken),
             Lit("Neuchâtel,") \o Star(Sp) \o Lit("le") \o Star(Sp) \o Grp(1, DateToken) >>
    IN  IF m = "main" THEN common ELSE common \o << Grp(1, DateToken) >>

\* re.sub(r'[./-]', '/', date_str)
RECURSIVE NormaliseSeparators(_)
NormaliseSeparators(s) ==
    IF Len(s) = 0 THEN ""
    ELSE IF Len(s) = 1 THEN (IF s \in DateSeparators THEN "/" ELSE s)
    ELSE NormaliseSeparators(SubSeq(s, 1, Len(s) \div 2))
             \o NormaliseSeparators(SubSeq(s, Len(s) \div 2 + 1, Len(s)))

\* s.split(sep), sep one character
RECURSIVE Split(_, _)
Split(s, sep) ==
    IF \A i \in 1..Len(s) : CharAt(s, i) # sep THEN <<s>>
    ELSE LET i == Min({j \in 1..Len(s) : CharAt(s, j) = sep})
         IN  <<SubSeq(s, 1, i - 1)>> \o Split(SubSeq(s, i + 1, Len(s)), sep)

DigitValue(c) == CHOOSE v \in 0..9 : CharAt("0123456789", v + 1) = c

\* int(s) for a string of decimal digits
RECURSIVE int(_)
int(s) ==
    IF Len(s) = 0 THEN 0
    ELSE 10 * int(SubSeq(s, 1, Len(s) - 1)) + DigitValue(CharAt(s, Len(s)))

IsLeap(y) == (y % 4 = 0 /\ y % 100 # 0) \/ y % 400 = 0

DaysInMonth(y, m) ==
    IF m = 2 THEN (IF IsLeap(y) THEN 29 ELSE 28)
    ELSE IF m \in {4, 6, 9, 11} THEN 30 ELSE 31

\* C5 mutant: the date built without the range checks of datetime().
datetime_Unchecked(year, month, day) == <<year, month, day>>

\* datetime(year, month, day): the date, or NoDate for ValueError
datetime(year, month, day) ==
    IF /\ year >= 1 /\ year <= 9999
       /\ month >= 1 /\ month <= 12
       /\ day >= 1 /\ day <= DaysInMonth(year, month)
    THEN <<year, month, day>>
    ELSE NoDate

\* the body of the loop over matches: the date of one match, NoDate when the
\* loop goes on to the next match
ParseDateMatch(date_str) ==
    LET parts == Split(NormaliseSeparators(date_str), "/")
    IN  IF Len(parts) # 3 THEN NoDate
        ELSE LET day == parts[1]
                 month == parts[2]
                 year == parts[3]
             IN  IF Len(year) # 4 THEN NoDate
                 ELSE IF Len(day) = 4
                      THEN datetime(int(day), int(month), int(year))
                      ELSE datetime(int(year), int(month), int(day))

\* the date found, or else what the rest of the loop finds
FirstDate(d, later) == IF d # NoDate THEN d ELSE later

\* C6 mutant: an unparsable match ends the scan of its pattern.
ScanMatches_StopAtInvalid(txt, matches, j) ==
    IF j > Len(matches) THEN NoDate
    ELSE ParseDateMatch(GroupText(txt, matches[j], 1))

\* for match in matches: return the first date that parses
RECURSIVE ScanMatches(_, _, _)
ScanMatches(txt, matches, j) ==
    IF j > Len(matches) THEN NoDate
    ELSE FirstDate(ParseDateMatch(GroupText(txt, matches[j], 1)),
                   ScanMatches(txt, matches, j + 1))

\* for pattern in date_patterns
RECURSIVE ScanPatterns(_, _, _)
ScanPatterns(m, txt, p) ==
    IF p > Len(date_patterns(m)) THEN NoDate
    ELSE FirstDate(ScanMatches(txt, FindIter(date_patterns(m)[p], txt, 1, 1, IGNORECASE), 1),
                   ScanPatterns(m, txt, p + 1))

extract_date(m, txt) == ScanPatterns(m, txt, 1)

MaxDateParts == 2

DateFragments ==
    { "Examen(s) du 14.03.2022", "41.15.2022", "le 31.02.2022", "le 2022/03/14",
      "LE 05-06-2021", "Neuchâtel, le7.8.2020", "29.02.2023", "12/11/2019",
      "IRM du rachis", "examen(s) du 29.02.2024" }

DateTexts == {JoinSpace(w) : w \in SeqsUpTo(DateFragments, 1, MaxDateParts)}

InitDate ==
    /\ module \in {"main", "extractor"}
    /\ pc = "start"
    /\ text \in DateTexts
    /\ NoFields
    /\ IdleClassify
    /\ IdleText
    /\ IdleReport
    /\ IdleDirectory

ExtractDate ==
    /\ pc = "start"
    /\ exam_date' = extract_date(module, text)
    /\ pc' = "dated"
    /\ UNCHANGED <<module, text, classifyVars, patient_info, sections, hashseed, previous, textVars, reportVars, dirVars>>

NextDate == ExtractDate

SpecDate == InitDate /\ [][NextDate]_vars

(***************************************************************************)
(* extract_patient_info (the same code in main.py and in                   *)
(* radiology_extractor.py)                                                 *)
(***************************************************************************)
\* [A-Z][A-Z\s\-\']+
NameToken == Cls(AsciiUpper) \o Plus(Cls(AsciiUpper \cup Whitespace \cup {"-", "'"}))

\* \((\d+)\s*ans\)
AgeToken == Lit("(") \o Grp(3, Plus(Dg)) \o Star(Sp) \o Lit("ans)")

\* name, DOB, age, patient ID, exam ID
FullPattern ==
    Grp(1, NameToken) \o Lit(",") \o Star(Sp) \o Grp(2, DateToken) \o Star(Sp)
        \o AgeToken \o Star(Sp) \o Lit("/") \o Star(Sp) \o Grp(4, Plus(Dg))
        \o Star(Sp) \o Lit("/") \o Star(Sp) \o Grp(5, Cls(AsciiUpper) \o Plus(Dg))

\* name, DOB, age, patient ID
IdPattern ==
    Grp(1, NameToken) \o Lit(",") \o Star(Sp) \o Grp(2, DateToken) \o Star(Sp)
        \o AgeToken \o Star(Sp) \o Lit("/") \o Star(Sp) \o Grp(4, Plus(Dg))

\* name, DOB, age
BasePattern ==
    Grp(1, NameToken) \o Star(Sp) \o Lit(",") \o Star(Sp) \o Grp(2, DateToken)
        \o Star(Sp) \o AgeToken

\* C8 mutant: the least specific pattern tried first.
patterns_LeastSpecificFirst ==
    << [re |-> BasePattern, groups |-> 3],
       [re |-> IdPattern, groups |-> 4],
       [re |-> FullPattern, groups |-> 5] >>

\* the list  patterns, with len(match.groups()) of each
patterns ==
    << [re |-> FullPattern, groups |-> 5],
       [re |-> IdPattern, groups |-> 4],
       [re |-> BasePattern, groups |-> 3] >>

id_patterns ==
    << Lit("No de patient") \o Star(Sp) \o Opt(Lit(":")) \o Star(Sp) \o Grp(1, Plus(Dg)),
       Lit("IPP") \o Star(Sp) \o Grp(1, Plus(Dg)),
       Lit("/") \o Star(Sp) \o Grp(1, Rep(Dg, 6, -1)) \o Star(Sp) \o Lit("/") \o Star(Sp)
           \o Opt(Cls(AsciiUpper)) \o Plus(Dg) >>

Max(S) == CHOOSE x \in S : \A y \in S : x >= y

\* str.strip()
strip(s) ==
    LET solid == {i \in 1..Len(s) : CharAt(s, i) \notin Whitespace}
    IN  IF solid = {} THEN "" ELSE SubSeq(s, Min(solid), Max(solid))

\* the body of  if match:  in the loop over the primary patterns
InfoFromMatch(txt, match, groups) ==
    LET info3 == [ patient_name |-> strip(GroupText(txt, match, 1)),
                   patient_dob |-> GroupText(txt, match, 2),
                   patient_age |-> int(GroupText(txt, match, 3)) ]
        info4 == IF groups >= 4
                 THEN info3 @@ ("patient_identifier" :> GroupText(txt, match, 4))
                 ELSE info3
    IN  IF groups >= 5
        THEN info4 @@ ("exam_identifier" :> GroupText(txt, match, 5))
        ELSE info4

\* for pattern in patterns: the first pattern that matches fills info
RECURSIVE PrimaryLoop(_, _)

\* if match: ... break
PrimaryStep(txt, match, p) ==
    IF match.ok THEN InfoFromMatch(txt, match, patterns[p].groups)
    ELSE PrimaryLoop(txt, p + 1)

PrimaryLoop(txt, p) ==
    IF p > Len(patterns) THEN NoInfo
    ELSE PrimaryStep(txt, Search(patterns[p].re, txt, 1, patterns[p].groups, NoFlags), p)

\* for pattern in id_patterns: the first pattern that matches sets the identifier
\* (info['patient_identifier'] = ...  replaces the key's value if it has one)
RECURSIVE FallbackLoop(_, _, _)

\* if match: info['patient_identifier'] = match.group(1); break
FallbackStep(info, txt, match, p) ==
    IF match.ok
    THEN ("patient_identifier" :> GroupText(txt, match, 1)) @@ info
    ELSE FallbackLoop(info, txt, p + 1)

FallbackLoop(info, txt, p) ==
    IF p > Len(id_patterns) THEN info
    ELSE FallbackStep(info, txt, Search(id_patterns[p], txt, 1, 1, IGNORECASE), p)

\* C9 mutant: the fallback patterns consulted whatever the primary patterns captured.
NeedsFallback_Always(info) == TRUE

\* if 'patient_identifier' not in info
NeedsFallback(info) == "patient_identifier" \notin DOMAIN info

\* the fallback for the identifier, applied to what the primary patterns gave
WithFallback(info, txt) ==
    IF NeedsFallback(info) THEN FallbackLoop(info, txt, 1) ELSE info

extract_patient_info(txt) == WithFallback(PrimaryLoop(txt, 1), txt)

MaxPatientParts == 2

PatientFragments ==
    { "DUPONT JEAN, 14.03.1950 (72 ans) / 1234567 / A123",
      "MARTIN, 1/2/1960 (62 ans) / 7654321",
      "O'NEIL-ROY , 03-04-1970 (52ans)",
      "IPP 999",
      "No de patient: 4242",
      "/ 123456 / 77",
      "ipp55",
      "Examen(s) du 14.03.2022" }

PatientTexts == {JoinSpace(w) : w \in SeqsUpTo(PatientFragments, 1, MaxPatientParts)}

InitPatient ==
    /\ module \in {"main", "extractor"}
    /\ pc = "start"
    /\ text \in PatientTexts
    /\ NoFields
    /\ IdleClassify
    /\ IdleText
    /\ IdleReport
    /\ IdleDirectory

ExtractPatientInfo ==
    /\ pc = "start"
    /\ patient_info' = extract_patient_info(text)
    /\ pc' = "identified"
    /\ UNCHANGED <<module, text, classifyVars, exam_date, sections, hashseed, previous, textVars, reportVars, dirVars>>

NextPatient == ExtractPatientInfo

SpecPatient == InitPatient /\ [][NextPatient]_vars

(***************************************************************************)
(* Section splitters: extract_sections (main.py, radiology_extractor.py)   *)
(* and parse_sections (app.py)                                             *)
(***************************************************************************)
\* the characters of the report texts, in code point order (the texts are
\* Latin-1: the en dash and the bullet that two character classes of the source
\* also accept do not occur in them)
CodePoints ==
    "\t\n '()*,-./0123456789:;ABCDEFGHIJKLMNOPQRSTUVWXYZ_abcdefghijklmnopqrstuvwxyzÀÂÇÈÉÊÎÔÛàâçèéêîôû"

Rank(c) == CHOOSE i \in 1..Len(CodePoints) : CharAt(CodePoints, i) = c

\* a < b for Python strings
StrLess(a, b) ==
    \E i \in 1..(Len(a) + 1) :
        /\ i <= Len(b)
        /\ SubSeq(a, 1, i - 1) = SubSeq(b, 1, i - 1)
        /\ \/ i = Len(a) + 1
           \/ Rank(CharAt(a, i)) < Rank(CharAt(b, i))

\* sorted(S)
sorted(S) ==
    [i \in 1..Cardinality(S) |->
        CHOOSE x \in S : Cardinality({y \in S : StrLess(y, x)}) = i - 1]

RemoveAt(seq, k) == SubSeq(seq, 1, k - 1) \o SubSeq(seq, k + 1, Len(seq))

\* the n-th rearrangement of seq
RECURSIVE Permute(_, _)
Permute(seq, n) ==
    IF Len(seq) = 0 THEN << >>
    ELSE <<seq[(n % Len(seq)) + 1]>>
         \o Permute(RemoveAt(seq, (n % Len(seq)) + 1), n \div Len(seq))

\* for sig in set(signatures): the order in which a set of strings is
\* iterated is fixed by the hash seed of the process and by nothing else
\* the code controls
SetOrder(S, seed) == Permute(sorted(S), seed)

\* sep.join(parts)
RECURSIVE Join(_, _)
Join(parts, sep) ==
    IF Len(parts) = 0 THEN ""
    ELSE IF Len(parts) = 1 THEN parts[1]
    ELSE parts[1] \o sep \o Join(Tail(parts), sep)

\* the keys of the dict the splitter starts from, all mapped to ''
SectionKeys(m) ==
    IF m = "app"
    THEN {"indication", "technique", "description", "conclusion", "signataires"}
    ELSE {"exam_type", "indication", "technique", "description", "conclusion",
          "validated_by"}

\* C10 mutant: the dict starts empty and gets a key only when one is assigned
InitialSections_Empty(m) == [k \in {} |-> ""]

\* sections = {'exam_type': '', ...}   /   out = {"indication": "", ...}
InitialSections(m) == [k \in SectionKeys(m) |-> ""]

\* d[key] = value, when the loop found a value
Assign(d, key, value) == IF value = None THEN d ELSE (key :> value) @@ d

\* \n\s*[A-Z][a-z]   and   \n\s*[A-Z][a-z]{2,}
NewlineCapital(k) ==
    Lit("\n") \o Star(Sp) \o Cls(AsciiUpper) \o Rep(Cls(AsciiLower), k, IF k = 1 THEN 1 ELSE -1)

\* (?=stop1|stop2|...|\n\s*[A-Z][a-z]{k,}|$)
Boundary(stops, k) ==
    Look(Alt([j \in 1..Len(stops) |-> Lit(stops[j])] \o <<NewlineCapital(k), EndOfString>>))

\* Header\s*:?\s*
Header(word) == Lit(word) \o Star(Sp) \o Opt(Lit(":")) \o Star(Sp)

\* Examen\(s\)[^:]*:
ExamHeader == Lit("Examen(s)") \o Star(NotCls({":"})) \o Lit(":")

LazyContent == Grp(1, Lazy(AnyChar, 0, -1))
GreedyContent == Grp(1, Star(AnyChar))

\* the dict section_patterns, in its insertion order
section_patterns ==
    << [section |-> "exam_type",
        patterns |-> << ExamHeader \o LazyContent
                          \o Boundary(<<"Indication", "Technique", "Comparatif",
                                        "Description", "Conclusion">>, 1),
                        ExamHeader \o GreedyContent >>],
       [section |-> "indication",
        patterns |-> << Header("Indication") \o LazyContent
                          \o Boundary(<<"Technique", "Comparatif", "Description",
                                        "Conclusion", "Technique">>, 1),
                        Header("Indication") \o GreedyContent >>],
       [section |-> "technique",
        patterns |-> << Header("Technique") \o LazyContent
                          \o Boundary(<<"Comparatif", "Description", "Conclusion">>, 1),
                        Header("Technique") \o GreedyContent >>],
       [section |-> "description",
        patterns |-> << Header("Description") \o LazyContent
                          \o Boundary(<<"Conclusion", "Validé", "Docteur">>, 2),
                        Header("Description") \o GreedyContent >>],
       [section |-> "conclusion",
        patterns |-> << Header("Conclusion") \o LazyContent
                          \o Boundary(<<"Validé", "Docteur", "En restant", "NB :">>, 2),
                        Header("Conclusion") \o GreedyContent >>] >>

\* [-*•], over the characters of the texts
Bullets == {"-", "*"}

\* content = match.group(1).strip(); the two re.sub that clean it
SectionContent(txt, match) ==
    Sub(Plus(Sp), " ",
        Sub(StartOfString \o Star(Sp) \o Cls(Bullets) \o Star(Sp), "",
            strip(GroupText(txt, match, 1)), NoFlags),
        NoFlags)

RECURSIVE SectionLoop(_, _, _)

\* if match: ... sections[section] = content; break
SectionStep(txt, match, pats, p) ==
    IF match.ok THEN SectionContent(txt, match) ELSE SectionLoop(txt, pats, p + 1)

\* C11 mutant: a section none of whose patterns matches receives the whole text
SectionLoop_WholeText(txt, pats, p) ==
    IF p > Len(pats) THEN txt
    ELSE SectionStep(txt, Search(pats[p], txt, 1, 1, IGNORECASE_DOTALL), pats, p)

\* for pattern in patterns: the content of the first pattern that matches,
\* None when none does
SectionLoop(txt, pats, p) ==
    IF p > Len(pats) THEN None
    ELSE SectionStep(txt, Search(pats[p], txt, 1, 1, IGNORECASE_DOTALL), pats, p)

\* for section, patterns in section_patterns.items()
RECURSIVE FillSections(_, _, _)
FillSections(d, txt, s) ==
    IF s > Len(section_patterns) THEN d
    ELSE FillSections(Assign(d, section_patterns[s].section,
                             SectionLoop(txt, section_patterns[s].patterns, 1)),
                      txt, s + 1)

\* [A-Z][a-z]+\s+[A-Z][a-z]+
TwoNames ==
    Cls(AsciiUpper) \o Plus(Cls(AsciiLower)) \o Plus(Sp)
        \o Cls(AsciiUpper) \o Plus(Cls(AsciiLower))

ValidatedBy ==
    Lit("Valid") \o Cls({"é", "e"}) \o Plus(Sp)
        \o Opt(Lit("électroniquement") \o Plus(Sp)) \o Lit("par") \o Plus(Sp)
        \o Grp(1, Plus(NotCls({",", "\n"})))

\* signature_patterns, each with its number of groups
signature_patterns(m) ==
    IF m = "extractor"
    THEN << [re |-> ValidatedBy, groups |-> 1],
            [re |-> Lit("Docteur") \o Plus(Sp) \o Grp(1, TwoNames)
                      \o Opt(Star(Sp) \o Lit(",") \o Star(Sp) \o Plus(NotCls({",", "\n"}))),
             groups |-> 1],
            [re |-> Grp(1, TwoNames) \o Star(Sp) \o Lit("/") \o Star(Sp) \o Grp(2, TwoNames),
             groups |-> 2] >>
    ELSE << [re |-> ValidatedBy, groups |-> 1],
            [re |-> Lit("Docteur") \o Plus(Sp) \o Grp(1, TwoNames), groups |-> 1] >>

\* what re.findall gives for a group: its text, '' if it took no part
GroupOrEmpty(txt, m, k) ==
    IF m.caps[k] = <<0, 0>> THEN "" ELSE SubSeq(txt, m.caps[k][1], m.caps[k][2] - 1)

NonEmpty(s) == s # ""

\* the signatures one match contributes: match.strip() for a pattern with one
\* group, the non-empty stripped groups for a tuple
MatchSignatures(txt, m, ng) ==
    IF ng = 1 THEN << strip(GroupOrEmpty(txt, m, 1)) >>
    ELSE SelectSeq([k \in 1..ng |-> strip(GroupOrEmpty(txt, m, k))], NonEmpty)

\* for match in matches
RECURSIVE MatchLoop(_, _, _, _)
MatchLoop(txt, matches, ng, j) ==
    IF j > Len(matches) THEN << >>
    ELSE MatchSignatures(txt, matches[j], ng) \o MatchLoop(txt, matches, ng, j + 1)

\* for pattern in signature_patterns: the list signatures
RECURSIVE SignatureLoop(_, _, _)
SignatureLoop(m, txt, p) ==
    IF p > Len(signature_patterns(m)) THEN << >>
    ELSE MatchLoop(txt,
                   FindIter(signature_patterns(m)[p].re, txt, 1,
                            signature_patterns(m)[p].groups, IGNORECASE_MULTILINE),
                   signature_patterns(m)[p].groups, 1)
         \o SignatureLoop(m, txt, p + 1)

\* the two re.sub applied to a signature
CleanSignature(sig) ==
    Sub(Star(Sp) \o Lit("Médecin") \o Star(AnyChar) \o EndOfString, "",
        Sub(StartOfString \o Star(Sp) \o Lit("Docteur") \o Plus(Sp), "", sig, IGNORECASE),
        NoFlags)

MinSignatureLength == 5

\* if sig and len(sig) > 5
LongEnough(sig) == sig # "" /\ Len(sig) > MinSignatureLength

\* cleaned_signatures, built by iterating set(signatures)
cleaned_signatures(ordered) ==
    SelectSeq([j \in 1..Len(ordered) |-> CleanSignature(ordered[j])], LongEnough)

\* extract_sections of main.py and radiology_extractor.py
extract_sections(m, txt, seed) ==
    ("validated_by" :> Join(cleaned_signatures(SetOrder(Range(SignatureLoop(m, txt, 1)), seed)),
                            "; "))
        @@ FillSections(InitialSections(m), txt, 1)

\* [:\-–], over the characters of the texts
HeaderPunctuation == Cls({":", "-"})

\* (?=\n\s*(k1|k2|...)\b|$)
NextHeader(keywords) ==
    Look(Alt(<< Lit("\n") \o Star(Sp)
                  \o Grp(3, Alt([j \in 1..Len(keywords) |-> Lit(keywords[j])]))
                  \o WordBoundary,
                EndOfString >>))

SignatureKeywords == <<"signa", "signature", "signataires">>

\* SECTION_PATTERNS of app.py
SECTION_PATTERNS ==
    << [key |-> "indication",
        re |-> WordBoundary \o Grp(1, Lit("indication")) \o Star(Sp)
                 \o HeaderPunctuation \o Star(Sp) \o Grp(2, Lazy(AnyChar, 1, -1))
                 \o NextHeader(<<"technique", "description", "conclusion">>
                               \o SignatureKeywords)],
       [key |-> "technique",
        re |-> WordBoundary \o Grp(1, Lit("technique")) \o Star(Sp)
                 \o HeaderPunctuation \o Star(Sp) \o Grp(2, Lazy(AnyChar, 1, -1))
                 \o NextHeader(<<"indication", "description", "conclusion">>
                               \o SignatureKeywords)],
       [key |-> "description",
        re |-> WordBoundary
                 \o Grp(1, Alt(<< Lit("description"),
                                  Lit("compte") \o Star(Sp) \o Lit("rendu") >>))
                 \o Star(Sp) \o Opt(HeaderPunctuation) \o Star(Sp)
                 \o Grp(2, Lazy(AnyChar, 1, -1))
                 \o NextHeader(<<"indication", "technique", "conclusion">>
                               \o SignatureKeywords)],
       [key |-> "conclusion",
        re |-> WordBoundary
                 \o Grp(1, Alt(<< Lit("conclusion"), Lit("impression"), Lit("résumé") >>))
                 \o Star(Sp) \o Opt(HeaderPunctuation) \o Star(Sp)
                 \o Grp(2, Lazy(AnyChar, 1, -1))
                 \o NextHeader(<<"indication", "technique", "description">>
                               \o SignatureKeywords)] >>

\* [A-ZÉÈÊÀÂÎÔÛÇ][a-zéèêàâîôûç]+
CapitalisedWord == Cls(UpperSet) \o Plus(Cls(LowerSet))

SIGN_PATTERN ==
    Grp(1, Alt(<< Lit("dr") \o Opt(Lit(".")) \o Plus(Sp) \o Cls(UpperSet)
                    \o Plus(Cls(WordChars \cup {"-", "'"} \cup Whitespace)),
                  CapitalisedWord \o Plus(Plus(Sp) \o CapitalisedWord) >>))
        \o Star(Sp)
        \o Opt(Alt(<< Lit("MD"), Lit("PhD"), Lit("FMH"), Lit("Radiologue") >>))

\* str.splitlines(): the lines, without a last empty one
splitlines(s) ==
    IF s = "" THEN << >>
    ELSE IF CharAt(s, Len(s)) = "\n" THEN Split(SubSeq(s, 1, Len(s) - 1), "\n")
    ELSE Split(s, "\n")

TailLines == 30

\* lines[-30:]
LastLines(lines) ==
    SubSeq(lines, IF Len(lines) > TailLines THEN Len(lines) - TailLines + 1 ELSE 1,
           Len(lines))

\* if m: out[key] = m.group(2).strip()
KeyContent(txt, m) == IF m.ok THEN strip(GroupText(txt, m, 2)) ELSE None

\* for key, pat in SECTION_PATTERNS
RECURSIVE FillKeys(_, _, _)
FillKeys(out, clean, s) ==
    IF s > Len(SECTION_PATTERNS) THEN out
    ELSE FillKeys(Assign(out, SECTION_PATTERNS[s].key,
                         KeyContent(clean, Search(SECTION_PATTERNS[s].re, clean, 1, 3,
                                                  IGNORECASE_DOTALL))),
                  clean, s + 1)

\* re.findall(SIGN_PATTERN, tail): group 1 of every match
RECURSIVE Groups(_, _, _)
Groups(txt, matches, j) ==
    IF j > Len(matches) THEN << >>
    ELSE <<GroupOrEmpty(txt, matches[j], 1)>> \o Groups(txt, matches, j + 1)

\* "; ".join(sorted(set(re.findall(SIGN_PATTERN, tail))))
Signataires(tail) ==
    Join(sorted(Range(Groups(tail, FindIter(SIGN_PATTERN, tail, 1, 1, IGNORECASE), 1))), "; ")

\* the body of parse_sections after  clean = re.sub(...)
SectionsOfClean(clean) ==
    ("signataires" :> Signataires(Join(LastLines(splitlines(clean)), "\n")))
        @@ FillKeys(InitialSections("app"), clean, 1)

\* parse_sections of app.py
parse_sections(txt) ==
    SectionsOfClean(Sub(Plus(Cls({" ", "\t"})) \o EndOfString, "", txt, MULTILINE))

\* the section splitter of each source file
SplitSections(m, txt, seed) ==
    IF m = "app" THEN parse_sections(txt) ELSE extract_sections(m, txt, seed)

MaxSectionParts == 2
MaxHashSeed == 1

\* lines of a report, in the order in which a report has them
SectionFragments ==
    << "Examen(s) du 14.03 : IRM lombaire",
       "Indication : toux",
       "INDICATION - douleur",
       "Technique: acquisition\t ",
       "IRM du rachis",
       "Compte rendu - normal",
       "Description\n* pas de lésion",
       "Conclusion : - RAS",
       "Validé par Docteur Jean Dupont, Médecin",
       "Jean Dupont / Anne Martin" >>

\* the increasing index sequences of at most n fragments
Picks(n) ==
    {p \in SeqsUpTo(1..Len(SectionFragments), 0, n) :
        \A j \in 1..(Len(p) - 1) : p[j] < p[j + 1]}

\* the texts: some fragments in report order, joined by spaces (a cleaned
\* text) or by newlines (a raw one)
SectionTexts ==
    {Join([j \in 1..Len(p) |-> SectionFragments[p[j]]], sep) :
        p \in Picks(MaxSectionParts), sep \in {" ", "\n"}}

InitSections ==
    /\ module \in {"main", "extractor", "app"}
    /\ pc = "start"
    /\ text \in SectionTexts
    /\ hashseed \in 0..MaxHashSeed
    /\ sections = NoSections
    /\ previous = NoSections
    /\ exam_date = NoDate
    /\ patient_info = NoInfo
    /\ IdleClassify
    /\ IdleText
    /\ IdleReport
    /\ IdleDirectory

ExtractSections ==
    /\ pc = "start"
    /\ sections' = SplitSections(module, text, hashseed)
    /\ pc' = "split"
    /\ UNCHANGED <<module, text, classifyVars, exam_date, patient_info, hashseed, previous, textVars, reportVars, dirVars>>

NextSections == ExtractSections

SpecSections == InitSections /\ [][NextSections]_vars

\* the lines of the cleaned texts on which the splitter is run again
RerunLines ==
    {"Indication : toux", "IRM du rachis", "Validé par Docteur Jean Dupont, Médecin",
     "Jean Dupont / Anne Martin"}

\* cleaned texts: one line, single spaces
RerunTexts ==
    {Join([j \in 1..Len(p) |-> SectionFragments[p[j]]], " ") :
        p \in {q \in Picks(MaxSectionParts) :
                  \A j \in 1..Len(q) : SectionFragments[q[j]] \in RerunLines}}

InitRerun ==
    /\ module \in {"main", "extractor", "app"}
    /\ pc = "start"
    /\ text \in RerunTexts
    /\ hashseed \in 0..MaxHashSeed
    /\ sections = NoSections
    /\ previous = NoSections
    /\ exam_date = NoDate
    /\ patient_info = NoInfo
    /\ IdleClassify
    /\ IdleText
    /\ IdleReport
    /\ IdleDirectory

\* the program is started again (the batch script is run once more, the
\* server restarts): the new process has its own hash seed
NewProcess ==
    /\ pc = "split"
    /\ hashseed' \in 0..MaxHashSeed
    /\ pc' = "restarted"
    /\ UNCHANGED <<module, text, classifyVars, exam_date, patient_info, sections, previous, textVars, reportVars, dirVars>>

\* the splitter runs a second time on the same text
ExtractSectionsAgain ==
    /\ pc \in {"split", "restarted"}
    /\ previous' = sections
    /\ sections' = SplitSections(module, text, hashseed)
    /\ pc' = "again"
    /\ UNCHANGED <<module, text, classifyVars, exam_date, patient_info, hashseed, textVars, reportVars, dirVars>>

NextRerun == ExtractSections \/ NewProcess \/ ExtractSectionsAgain

SpecRerun == InitRerun /\ [][NextRerun]_vars

(***************************************************************************)
(* Text extraction: extract_text_from_pdf with its OCR fallback (main.py,  *)
(* radiology_extractor.py) and extract_text_pdf (app.py)                    *)
(***************************************************************************)
\* how a block of code ends: it returns a value or raises an exception
Return(v) == [exc |-> "none", value |-> v]
Raise(e) == [exc |-> e, value |-> None]

\* C15 mutant: the handler lets the exception through
ExceptException_Reraise(r, handled) == r

\* try: ... except Exception: handled
ExceptException(r, handled) == IF r.exc = "none" THEN r ELSE handled

\* try: ... except ImportError: handled
ExceptImportError(r, handled) == IF r.exc = "ImportError" THEN handled ELSE r

\* [\x00-\x08\x0b-\x0c\x0e-\x1f\x7f-\x9f], over the characters of the texts
ControlChars == {"\f"}

\* re.sub(r'[\x00-...]', ' ', text): the characters lo..hi of s, each control
\* character replaced by a space
RECURSIVE BlankControls(_, _, _)
BlankControls(s, lo, hi) ==
    IF lo > hi THEN ""
    ELSE IF lo = hi THEN (IF CharAt(s, lo) \in ControlChars THEN " " ELSE CharAt(s, lo))
    ELSE BlankControls(s, lo, (lo + hi) \div 2) \o BlankControls(s, (lo + hi) \div 2 + 1, hi)

\* re.sub(r'\s+', ' ', text): the characters lo..hi of s, each run of
\* whitespace replaced by one space
RECURSIVE CollapseWhitespace(_, _, _)
CollapseWhitespace(s, lo, hi) ==
    IF lo > hi THEN ""
    ELSE IF lo = hi
    THEN (IF CharAt(s, lo) \notin Whitespace THEN CharAt(s, lo)
          ELSE IF lo > 1 /\ CharAt(s, lo - 1) \in Whitespace THEN ""
          ELSE " ")
    ELSE CollapseWhitespace(s, lo, (lo + hi) \div 2)
         \o CollapseWhitespace(s, (lo + hi) \div 2 + 1, hi)

\* the text with its runs of whitespace collapsed
Collapsed(s) == CollapseWhitespace(s, 1, Len(s))

clean_text(txt) ==
    IF txt = "" THEN "" ELSE strip(Collapsed(BlankControls(txt, 1, Len(txt))))

\* if page_text.strip(): text_chunks.append(page_text)
NotBlank(page_text) == strip(page_text) # ""

\* the body of the try block of the primary extractor, and the cleaning of
\* what it read
PrimaryBody(p) ==
    IF p.primary_error > 0 THEN Raise("Exception")
    ELSE Return(clean_text(Join(SelectSeq(p.pages, NotBlank), "\n")))

\* the text held after the primary extractor: '' when it raised
PrimaryText(p) == ExceptException(PrimaryBody(p), Return("")).value

\* radiology_extractor.py:  except Exception as e: ...; return ""
ReturnsOnPrimaryError(m, p) == m = "extractor" /\ PrimaryBody(p).exc # "none"

OcrThreshold == 200

\* if not text or len(text) < 200   /   if len(text) < 200
NeedsOcr(m, txt) == txt = "" \/ Len(txt) < OcrThreshold

\* str(n) for a page number
PageNumber(n) == CharAt("0123456789", n + 1)

\* what the OCR loop collects for each image
OcrChunks(m, pages) ==
    IF m = "main"
    THEN [i \in 1..Len(pages) |-> "--- Page " \o PageNumber(i) \o " ---\n" \o pages[i]]
    ELSE pages

\* the body of the try block of the OCR function
OcrBody(m, p) ==
    IF p.ocr_status = "missing" THEN Raise("ImportError")
    ELSE IF p.ocr_status = "error" THEN Raise("Exception")
    ELSE Return(clean_text(Join(OcrChunks(m, p.ocr_pages), "\n")))

\* what the OCR function gives when it has no text: "" in main.py, None in
\* radiology_extractor.py
NoOcrText(m) == IF m = "main" THEN "" ELSE None

\* extract_text_with_ocr (main.py) and _extract_with_ocr (radiology_extractor.py)
extract_text_with_ocr(m, p) ==
    ExceptException(ExceptImportError(OcrBody(m, p), Return(NoOcrText(m))),
                    Return(NoOcrText(m)))

\* if ocr_text and len(ocr_text) > len(text): text = ocr_text   (main.py)
\* text = self._extract_with_ocr(pdf_path) or text          (radiology_extractor.py)
TextAfterOcr(m, txt, ocr_text) ==
    IF m = "main"
    THEN (IF ocr_text # "" /\ Len(ocr_text) > Len(txt) THEN ocr_text ELSE txt)
    ELSE (IF ocr_text \notin {None, ""} THEN ocr_text ELSE txt)

\* the end of extract_text_from_pdf once the OCR function has ended
AfterOcr(m, txt, ocr) ==
    IF ocr.exc # "none" THEN ocr ELSE Return(TextAfterOcr(m, txt, ocr.value))

\* for page in ...: text += (page.extract_text() or "") + "\n", up to the
\* page at which the reader raises (all of them when error = 0)
PagesRead(pages, error) ==
    Join([i \in 1..(IF error > 0 THEN error - 1 ELSE Len(pages)) |-> pages[i] \o "\n"], "")

\* app.py: the text after pdfplumber, an exception being passed over
TextAfterPlumber(p) == PagesRead(p.pages, p.primary_error)

\* app.py: if not text.strip(): the same with pypdf
TextAfterPypdf(p, txt) ==
    IF strip(txt) = "" THEN txt \o PagesRead(p.pages, p.secondary_error) ELSE txt

\* extract_text_pdf of app.py
extract_text_pdf(p) == strip(TextAfterPypdf(p, TextAfterPlumber(p)))

\* the string of n characters c
RECURSIVE Repeat(_, _)
Repeat(c, n) ==
    IF n = 0 THEN ""
    ELSE IF n = 1 THEN c
    ELSE Repeat(c, n \div 2) \o Repeat(c, n - n \div 2)

MaxPages == 2
MaxOcrPages == 1

\* what a page of the PDF yields: nothing but whitespace, a short text to
\* clean, a text one character short of the threshold, a text that reaches it
PageTexts ==
    {" \n", "IRM\fdu  rachis\n", Repeat("a", OcrThreshold - 1), Repeat("a", OcrThreshold)}

\* what the OCR reads on a page
OcrPageTexts == {"", Repeat("b", OcrThreshold)}

\* the error position of a reader: 0 when it does not raise, k when it raises
\* at page k (at the opening of the file when there is no page)
ErrorPositions(pages) == 0..(IF Len(pages) = 0 THEN 1 ELSE Len(pages))

Pdfs(m) ==
    {[pages |-> pages, primary_error |-> e1, secondary_error |-> e2,
      ocr_status |-> o, ocr_pages |-> op] :
        pages \in SeqsUpTo(PageTexts, 0, MaxPages),
        e1 \in 0..MaxPages, e2 \in 0..1,
        o \in {"ok", "missing", "error"},
        op \in SeqsUpTo(OcrPageTexts, 0, MaxOcrPages)}

InitText ==
    /\ module \in {"main", "extractor", "app"}
    /\ pc = "start"
    /\ pdf \in {p \in Pdfs(module) :
                  /\ p.primary_error \in ErrorPositions(p.pages)
                  /\ module # "app" => p.primary_error <= 1 /\ p.secondary_error = 0
                  /\ module = "app" => p.ocr_status = "missing" /\ p.ocr_pages = << >>
                  /\ p.ocr_status # "ok" => p.ocr_pages = << >>}
    /\ primary_text = ""
    /\ ocr_invoked = FALSE
    /\ extracted = None
    /\ text = ""
    /\ NoFields
    /\ IdleClassify
    /\ IdleReport
    /\ IdleDirectory

\* extract_text_from_pdf up to the test of the length of the text
ReadPdf ==
    /\ pc = "start"
    /\ module \in {"main", "extractor"}
    /\ primary_text' = PrimaryText(pdf)
    /\ IF ReturnsOnPrimaryError(module, pdf)
       THEN /\ extracted' = Return("")
            /\ pc' = "done"
       ELSE /\ extracted' = extracted
            /\ pc' = IF NeedsOcr(module, PrimaryText(pdf)) THEN "ocr" ELSE "return"
    /\ UNCHANGED <<module, text, classifyVars, fieldVars, pdf, ocr_invoked, reportVars, dirVars>>

\* the OCR fallback and the choice between its text and the primary text
OcrFallback ==
    /\ pc = "ocr"
    /\ ocr_invoked' = TRUE
    /\ extracted' = AfterOcr(module, primary_text, extract_text_with_ocr(module, pdf))
    /\ pc' = "done"
    /\ UNCHANGED <<module, text, classifyVars, fieldVars, pdf, primary_text, reportVars, dirVars>>

\* return text, the OCR not having been needed
ReturnText ==
    /\ pc = "return"
    /\ extracted' = Return(primary_text)
    /\ pc' = "done"
    /\ UNCHANGED <<module, text, classifyVars, fieldVars, pdf, primary_text, ocr_invoked, reportVars, dirVars>>

\* extract_text_pdf of app.py
ReadPdfApp ==
    /\ pc = "start"
    /\ module = "app"
    /\ primary_text' = TextAfterPlumber(pdf)
    /\ extracted' = Return(extract_text_pdf(pdf))
    /\ pc' = "done"
    /\ UNCHANGED <<module, text, classifyVars, fieldVars, pdf, ocr_invoked, reportVars, dirVars>>

NextText == ReadPdf \/ OcrFallback \/ ReturnText \/ ReadPdfApp

SpecText == InitText /\ [][NextText]_vars

(***************************************************************************)
(* Report pipeline: extract_complete_report and the extract endpoints      *)
(* (main.py), extract_report and process_directory (radiology_extractor.py)*)
(***************************************************************************)
Digit(n) == CharAt("0123456789", n + 1)

\* the decimal digits of a natural number
RECURSIVE str(_)
str(n) == IF n < 10 THEN Digit(n) ELSE str(n \div 10) \o Digit(n % 10)

ZeroPad(s, width) == IF Len(s) >= width THEN s ELSE Repeat("0", width - Len(s)) \o s

\* %Y of strftime: the C library of the build pads a year below 1000 to four
\* digits or leaves it as it is (glibc)
FormatYear(year, pads) == IF pads THEN ZeroPad(str(year), 4) ELSE str(year)

\* exam_date.strftime("%Y%m%d") with sep = "", ("%Y-%m-%d") with sep = "-"
strftime(date, sep, pads) ==
    FormatYear(date[1], pads) \o sep \o ZeroPad(str(date[2]), 2)
        \o sep \o ZeroPad(str(date[3]), 2)

\* the positions of character c in s
Positions(s, c) == {i \in 1..Len(s) : CharAt(s, i) = c}

\* the path without its trailing slashes
TrimSlashes(path) ==
    IF \A i \in 1..Len(path) : CharAt(path, i) = "/" THEN ""
    ELSE SubSeq(path, 1, Max({i \in 1..Len(path) : CharAt(path, i) # "/"}))

\* Path(p).name: the last component of the path
PathName(path) ==
    IF Positions(TrimSlashes(path), "/") = {} THEN TrimSlashes(path)
    ELSE SubSeq(TrimSlashes(path), Max(Positions(TrimSlashes(path), "/")) + 1,
                Len(TrimSlashes(path)))

\* the name without its suffix: the suffix starts at the last dot, unless that
\* dot is the first or the last character of the name
WithoutSuffix(name) ==
    IF Positions(name, ".") = {} THEN name
    ELSE IF Max(Positions(name, ".")) \in {1, Len(name)} THEN name
    ELSE SubSeq(name, 1, Max(Positions(name, ".")) - 1)

\* Path(filename).stem
PathStem(path) == WithoutSuffix(PathName(path))

\* dict.get(key, default)
Get(d, key, default) == IF key \in DOMAIN d THEN d[key] ELSE default

\* date_part = exam_date.strftime("%Y%m%d") if exam_date else "unknown_date"
DatePart(date, pads) == IF date # NoDate THEN strftime(date, "", pads) ELSE "unknown_date"

\* f"{date_part}_{patient_part}_{file_part}"
JoinId(date_part, patient_part, file_part) ==
    date_part \o "_" \o patient_part \o "_" \o file_part

\* generate_report_id of radiology_extractor.py
generate_report_id(date, patient_id, pdf_path, pads) ==
    JoinId(DatePart(date, pads),
           IF patient_id # "" THEN patient_id ELSE "unknown_patient",
           PathStem(pdf_path))

\* the identifier built in extract_complete_report of main.py
report_id(date, info, name, pads) ==
    JoinId(DatePart(date, pads),
           Get(info, "patient_identifier", "unknown_patient"),
           PathStem(name))

\* 'id': ... of each source file
ReportId(m, date, info, name, pads) ==
    IF m = "main" THEN report_id(date, info, name, pads)
    ELSE generate_report_id(date, Get(info, "patient_identifier", ""), name, pads)

\* the value standing for None in a column of integers
NoAge == -1

\* report = {...}
BuildReport(m, info, date, secs, spec, txt, name, pads) ==
    [ id |-> ReportId(m, date, info, name, pads),
      exam_date |-> IF date # NoDate THEN strftime(date, "-", pads) ELSE None,
      patient_name |-> Get(info, "patient_name", ""),
      patient_dob |-> Get(info, "patient_dob", ""),
      patient_age |-> Get(info, "patient_age", NoAge),
      patient_identifier |-> Get(info, "patient_identifier", ""),
      exam_type |-> secs["exam_type"],
      specialty |-> spec,
      indication |-> secs["indication"],
      technique |-> secs["technique"],
      description |-> secs["description"],
      conclusion |-> secs["conclusion"],
      validated_by |-> secs["validated_by"],
      raw_text |-> txt ]

\* the report, once the three extractors have run
ReportOf(m, info, date, secs, txt, name, pads) ==
    BuildReport(m, info, date, secs,
                determine_specialty(m, secs["exam_type"], secs["technique"]),
                txt, name, pads)

MinTextLength == 100

\* C19 mutant: only the empty text is refused
TooShort_OnlyEmpty(txt) == txt = ""

\* if not text or len(text) < 100
TooShort(txt) == txt = "" \/ Len(txt) < MinTextLength

\* what each source file returns for a text that is too short
TooShortResult(m) ==
    IF m = "main" THEN [error |-> "Texte trop court ou vide"] ELSE << >>

\* extract_complete_report of main.py; extract_report of radiology_extractor.py
\* from the text that extract_text_from_pdf returned
extract_complete_report(m, txt, name, seed, pads) ==
    IF TooShort(txt) THEN TooShortResult(m)
    ELSE ReportOf(m, extract_patient_info(txt), extract_date(m, txt),
                  extract_sections(m, txt, seed), txt, name, pads)

\* whether a result of extract_complete_report / extract_report is a report
IsReport(r) == r # << >> /\ "error" \notin DOMAIN r

(***************************************************************************)
(* The store: the table reports of radiology_reports.db                    *)
(***************************************************************************)
\* the rows of the store other than those with the given id
OtherRows(st, id) == SelectSeq(st, LAMBDA row : row.id # id)

\* C17 mutant: a plain INSERT, which keeps the row already there
InsertOrReplace_KeepOld(st, row) == st \o <<row>>

\* INSERT OR REPLACE INTO reports (id, ...) VALUES (...), id being the primary
\* key: the row with that id is deleted, the new row is added
InsertOrReplace(st, row) == OtherRows(st, row.id) \o <<row>>

\* the columns written by the INSERT
Columns ==
    {"id", "exam_date", "patient_name", "patient_dob", "patient_age",
     "patient_identifier", "exam_type", "specialty", "indication", "technique",
     "description", "conclusion", "validated_by", "raw_text"}

\* the tuple of values bound to the INSERT
RowOf(rep) == [c \in Columns |-> rep[c]]

\* the body of the try block of save_report_to_db / save_report: connect,
\* execute, commit, close, return True; an exception leaves the table as it was
WriteRow(works) == IF works THEN Return(TRUE) ELSE Raise("Exception")

\* C18 mutant: the exception of the write leaves save_report_to_db
save_report_to_db_Raises(works) == WriteRow(works)

\* save_report_to_db of main.py, save_report of radiology_extractor.py: how
\* the call ends
save_report_to_db(works) == ExceptException(WriteRow(works), Return(FALSE))

\* the table after the call
StoreAfterSave(st, rep, works) == IF works THEN InsertOrReplace(st, RowOf(rep)) ELSE st

(***************************************************************************)
(* The extract endpoints of main.py and process_directory                  *)
(***************************************************************************)
NoReport == << >>
NoResponse == << >>
NoResult == << >>
NoListing == << >>

\* filename.endswith(suffix)
EndsWith(s, suffix) ==
    Len(s) >= Len(suffix) /\ SubSeq(s, Len(s) - Len(suffix) + 1, Len(s)) = suffix

\* JSONResponse({"error": msg}, status_code=code)
ErrorResponse(code, msg) == [status |-> code, body |-> [error |-> msg]]

\* text[:1000] + "..." if len(text) > 1000 else text
Preview(txt) == IF Len(txt) > 1000 THEN SubSeq(txt, 1, 1000) \o "..." ELSE txt

\* JSONResponse({"report": report, ...})
ReportResponse(ep, rep, txt) ==
    IF ep = "extract_from_pdf"
    THEN [status |-> 200,
          body |-> [report |-> rep,
                    raw_text_preview |-> Preview(txt),
                    extraction_method |-> IF Contains("--- Page", txt) THEN "OCR"
                                          ELSE "pdfplumber"]]
    ELSE [status |-> 200, body |-> [report |-> rep]]

\* the entry process_directory appends to stats["details"]
DetailsEntry(name, rep, outcome) ==
    IF outcome = "success"
    THEN [file |-> PathName(name), id |-> rep.id, status |-> "success"]
    ELSE [file |-> PathName(name), status |-> outcome]

\* report["saved_to_db"] = save_success
WithSavedFlag(rep, flag) == ("saved_to_db" :> flag) @@ rep

\* s followed by dots up to n characters
PadTo(s, n) == s \o Repeat(".", n - Len(s))

\* the texts handed to the pipeline: none, a short one, one of 99 and one of
\* 100 characters, and reports with and without patient line, date and
\* signatory
ReportTexts ==
    { "",
      "Indication : toux",
      PadTo("IPP 999 Examen(s) du 29.02.2024 : thorax ", MinTextLength - 1),
      PadTo("IPP 999 Examen(s) du 29.02.2024 : thorax ", MinTextLength),
      "DUPONT JEAN, 14.03.1950 (72 ans) / 1234567 / A123 Examen(s) du 14.03.2022 : IRM lombaire Indication : douleur Conclusion : RAS Docteur Jean Dupont",
      "Indication : toux depuis trois semaines Description pas de lésion visible Conclusion : RAS Validé par Docteur Anne Martin, Médecin",
      "O'NEIL-ROY , 03-04-1970 (52ans) Examen(s) du 02.01.0999 : TDM cérébrale Technique: sans injection Conclusion : pas de saignement" }

\* the names of the uploaded files, and of the files process_directory finds
\* with glob("*.pdf")
UploadNames == {"scan.pdf", "reports/CR.2024.pdf", ".pdf", "notes.txt"}
DirectoryNames == {"radiology_reports/scan.pdf", "radiology_reports/CR.2024.pdf"}

\* the entry points, each with the file names it can be given
Calls ==
    {<<"main", "extract_from_text", "text_input">>}
        \cup {<<"main", "extract_from_pdf", n>> : n \in UploadNames}
        \cup {<<"extractor", "process_directory", n>> : n \in DirectoryNames}

\* a row saved by an earlier request
EarlierRow ==
    [ id |-> "20220314_1234567_scan", exam_date |-> "2022-03-14",
      patient_name |-> "DUPONT JEAN", patient_dob |-> "14.03.1950",
      patient_age |-> 71, patient_identifier |-> "1234567",
      exam_type |-> "TDM thorax", specialty |-> "Thoracique",
      indication |-> "", technique |-> "", description |-> "",
      conclusion |-> "", validated_by |-> "", raw_text |-> "TDM thorax" ]

InitReport ==
    /\ \E call \in Calls :
        /\ module = call[1]
        /\ endpoint = call[2]
        /\ filename = call[3]
    /\ pc = "start"
    /\ text \in ReportTexts
    /\ pads_year \in BOOLEAN
    /\ store \in {<< >>, <<EarlierRow>>}
    /\ report = NoReport
    /\ db_error = FALSE
    /\ saved = NoResult
    /\ response = NoResponse
    /\ listing = NoListing
    /\ history = store
    /\ NoFields
    /\ IdleClassify
    /\ IdleText
    /\ IdleDirectory

\* extract_from_pdf: the upload is refused before any extraction
RejectUpload ==
    /\ pc = "start"
    /\ endpoint = "extract_from_pdf"
    /\ ~ EndsWith(filename, ".pdf") \/ text = ""
    /\ response' = IF ~ EndsWith(filename, ".pdf")
                   THEN ErrorResponse(400, "Le fichier doit être un PDF")
                   ELSE ErrorResponse(400, "Impossible d'extraire le texte du PDF")
    /\ pc' = "answered"
    /\ UNCHANGED <<module, text, classifyVars, fieldVars, textVars, endpoint, filename,
                   pads_year, report, store, db_error, saved, listing, history, dirVars>>

\* report = extract_complete_report(text, filename)  /  extract_report(pdf_path)
ExtractReport ==
    /\ pc = "start"
    /\ endpoint = "extract_from_pdf" => EndsWith(filename, ".pdf") /\ text # ""
    /\ report' = extract_complete_report(module, text, filename, hashseed, pads_year)
    /\ pc' = "extracted"
    /\ UNCHANGED <<module, text, classifyVars, fieldVars, textVars, endpoint, filename,
                   pads_year, store, db_error, saved, response, listing, history, dirVars>>

\* if "error" in report: return JSONResponse(..., status_code=400)
\* process_directory: the file is counted as failed
RejectReport ==
    /\ pc = "extracted"
    /\ ~ IsReport(report)
    /\ response' = IF module = "main" THEN ErrorResponse(400, report.error)
                   ELSE DetailsEntry(filename, report, "extraction_failed")
    /\ pc' = "answered"
    /\ UNCHANGED <<module, text, classifyVars, fieldVars, textVars, endpoint, filename,
                   pads_year, report, store, db_error, saved, listing, history, dirVars>>

\* what follows a save that raised: the endpoint's  except Exception as e
Status500 == [status |-> 500, body |-> [error |-> "Exception"]]

\* save_success = save_report_to_db(report)  /  self.save_report(report)
SaveReport ==
    /\ pc = "extracted"
    /\ IsReport(report)
    /\ \E works \in BOOLEAN :
        /\ db_error' = ~ works
        /\ saved' = save_report_to_db(works)
        /\ store' = StoreAfterSave(store, report, works)
        /\ history' = IF works THEN Append(history, report) ELSE history
        /\ IF save_report_to_db(works).exc = "none"
           THEN pc' = "saved" /\ response' = response
           ELSE pc' = "answered" /\ response' = Status500
    /\ UNCHANGED <<module, text, classifyVars, fieldVars, textVars, endpoint, filename,
                   pads_year, report, listing, dirVars>>

\* report["saved_to_db"] = save_success; return JSONResponse({"report": report, ...})
\* process_directory: the entry of stats["details"]
Answer ==
    /\ pc = "saved"
    /\ IF module = "main"
       THEN /\ report' = WithSavedFlag(report, saved.value)
            /\ response' = ReportResponse(endpoint, WithSavedFlag(report, saved.value), text)
       ELSE /\ report' = report
            /\ response' = DetailsEntry(filename, report,
                                        IF saved.value THEN "success" ELSE "save_failed")
    /\ pc' = "answered"
    /\ UNCHANGED <<module, text, classifyVars, fieldVars, textVars, endpoint, filename,
                   pads_year, store, db_error, saved, listing, history, dirVars>>

NextReport == RejectUpload \/ ExtractReport \/ RejectReport \/ SaveReport \/ Answer

SpecReport == InitReport /\ [][NextReport]_vars

(***************************************************************************)
(* save_report_to_db / save_report called one report after another, and    *)
(* get_reports                                                              *)
(***************************************************************************)
MaxSaves == 3

\* the texts and file names of the reports that are saved: the second has the
\* date, patient and file name of the first and another conclusion
StoreInputs ==
    { <<"DUPONT JEAN, 14.03.1950 (72 ans) / 1234567 / A123 Examen(s) du 14.03.2022 : IRM lombaire Indication : douleur Conclusion : RAS Docteur Jean Dupont",
        "scan.pdf">>,
      <<"DUPONT JEAN, 14.03.1950 (72 ans) / 1234567 / A123 Examen(s) du 14.03.2022 : TDM thorax Indication : douleur Conclusion : nodule Docteur Jean Dupont",
        "scan.pdf">>,
      <<"Indication : toux depuis trois semaines Description pas de lésion visible Conclusion : RAS Validé par Docteur Anne Martin, Médecin",
        "scan.pdf">>,
      <<"O'NEIL-ROY , 03-04-1970 (52ans) Examen(s) du 02.01.0999 : TDM cérébrale Technique: sans injection Conclusion : pas de saignement",
        "scan.pdf">>,
      <<PadTo("IPP 999 Examen(s) du 29.02.2024 : thorax ", MinTextLength),
        "reports/CR.2024.pdf">> }

\* the reports each source file builds from them, for each way the build
\* writes a year
StoreReports ==
    [m \in {"main", "extractor"}, pads \in BOOLEAN |->
        {extract_complete_report(m, input[1], input[2], 0, pads) : input \in StoreInputs}]

InitStore ==
    /\ module \in {"main", "extractor"}
    /\ pc = "idle"
    /\ pads_year \in BOOLEAN
    /\ endpoint = None
    /\ filename = None
    /\ report = NoReport
    /\ store = << >>
    /\ db_error = FALSE
    /\ saved = NoResult
    /\ response = NoResponse
    /\ listing = NoListing
    /\ history = << >>
    /\ text = ""
    /\ NoFields
    /\ IdleClassify
    /\ IdleText
    /\ IdleDirectory

\* save_report_to_db(report) / save_report(report), called with a report
SaveReportToDb ==
    /\ Len(history) < MaxSaves
    /\ \E rep \in StoreReports[module, pads_year], works \in BOOLEAN :
        /\ report' = rep
        /\ db_error' = ~ works
        /\ saved' = save_report_to_db(works)
        /\ store' = StoreAfterSave(store, rep, works)
        /\ history' = IF works THEN Append(history, rep) ELSE history
    /\ listing' = NoListing
    /\ pc' = "saved"
    /\ UNCHANGED <<module, text, classifyVars, fieldVars, textVars, endpoint, filename,
                   pads_year, response, dirVars>>

\* how SQLite compares two values of the column exam_date: NULL comes before
\* every text, texts compare by their code points
ColumnLess(a, b) ==
    IF a = None THEN b # None
    ELSE b # None /\ StrLess(a, b)

\* the orders in which  ORDER BY exam_date DESC  can give the rows: rows with
\* equal exam_date come in an order the statement does not fix
DescendingOrders(st) ==
    {p \in [1..Len(st) -> 1..Len(st)] :
        /\ \A i, j \in 1..Len(st) : i # j => p[i] # p[j]
        /\ \A i, j \in 1..Len(st) :
               i < j => ~ ColumnLess(st[p[i]].exam_date, st[p[j]].exam_date)}

\* SELECT id, exam_date, patient_name, patient_age, exam_type, specialty, validated_by
SummaryColumns ==
    {"id", "exam_date", "patient_name", "patient_age", "exam_type", "specialty",
     "validated_by"}

Summary(row) == [c \in SummaryColumns |-> row[c]]

\* LIMIT ? OFFSET ?: a negative limit is no limit, a negative offset is 0
Page(rows, limit, offset) ==
    SubSeq(rows, (IF offset < 0 THEN 0 ELSE offset) + 1,
           IF limit < 0 THEN Len(rows)
           ELSE Min({Len(rows), (IF offset < 0 THEN 0 ELSE offset) + limit}))

\* the rows of the SELECT, for one of the orders
SelectRows(st, order, limit, offset) ==
    Page([i \in 1..Len(st) |-> Summary(st[order[i]])], limit, offset)

\* JSONResponse({"reports": rows, "pagination": {...}})
ListingResponse(rows, total, limit, offset) ==
    [status |-> 200,
     body |-> [reports |-> rows,
               pagination |-> [total |-> total, limit |-> limit, offset |-> offset]]]

Limits == {-1, 0, 1, 10}
Offsets == {0, 1}

\* get_reports(limit, offset)
GetReports ==
    /\ module = "main"
    /\ \E limit \in Limits, offset \in Offsets, works \in BOOLEAN :
        IF works
        THEN \E order \in DescendingOrders(store) :
               listing' = ListingResponse(SelectRows(store, order, limit, offset),
                                          Len(store), limit, offset)
        ELSE listing' = Status500
    /\ pc' = "listed"
    /\ UNCHANGED <<module, text, classifyVars, fieldVars, textVars, endpoint, filename,
                   pads_year, report, store, db_error, saved, response, history, dirVars>>

NextStore == SaveReportToDb \/ GetReports

SpecStore == InitStore /\ [][NextStore]_vars

(***************************************************************************)
(* process_directory of radiology_extractor.py                             *)
(***************************************************************************)
MaxFiles == 4

\* str(pdf_file) for the i-th file of the glob
FileName(i) == "radiology_reports/scan" \o Digit(i) \o ".pdf"

\* what a file leads to: a report text, a text that is too short, or an
\* exception raised inside the try block of extract_report
FileKinds ==
    { [text |-> "DUPONT JEAN, 14.03.1950 (72 ans) / 1234567 / A123 Examen(s) du 14.03.2022 : IRM lombaire Indication : douleur Conclusion : RAS Docteur Jean Dupont",
       raises |-> FALSE],
      [text |-> "Indication : toux", raises |-> FALSE],
      [text |-> "DUPONT JEAN, 14.03.1950 (72 ans) / 1234567 / A123 Examen(s) du 14.03.2022 : IRM lombaire Indication : douleur Conclusion : RAS Docteur Jean Dupont",
       raises |-> TRUE] }

\* the i-th file of a directory, of kind k
File(i, k) == [name |-> FileName(i), text |-> k.text, raises |-> k.raises]

\* the files a directory can hold
DirectoryFiles == {File(i, k) : i \in 1..MaxFiles, k \in FileKinds}

\* the directories: the i-th file has the i-th name
Directories ==
    {[i \in 1..Len(ks) |-> File(i, ks[i])] : ks \in SeqsUpTo(FileKinds, 0, MaxFiles)}

\* the body of the try block of extract_report
ExtractBody(f, pads) ==
    IF f.raises THEN Raise("Exception")
    ELSE Return(extract_complete_report("extractor", f.text, f.name, 0, pads))

\* C21 mutant: the exception leaves extract_report
extract_report_Unhandled(f, pads) == ExtractBody(f, pads)

\* extract_report: how the call ends;  except Exception as e: ...; return None
extract_report(f, pads) == ExceptException(ExtractBody(f, pads), Return(NoReport))

\* how extract_report ends on each file, for each way the build writes a year
ExtractOutcomes ==
    [f \in DirectoryFiles, pads \in BOOLEAN |-> extract_report(f, pads)]

\* stats = {"total": 0, "success": 0, "failed": 0, "details": []}
NewStats == [total |-> 0, success |-> 0, failed |-> 0, details |-> << >>]

\* stats["success"] += 1; stats["details"].append({...})
CountSuccess(st, entry) ==
    [st EXCEPT !.success = @ + 1, !.details = Append(@, entry)]

\* stats["failed"] += 1; stats["details"].append({...})
CountFailed(st, entry) ==
    [st EXCEPT !.failed = @ + 1, !.details = Append(@, entry)]

InitDirectory ==
    /\ module = "extractor"
    /\ pc = "loop"
    /\ endpoint = "process_directory"
    /\ pads_year \in BOOLEAN
    /\ directory \in Directories
    /\ pending = directory
    /\ stats = NewStats
    /\ filename = None
    /\ report = NoReport
    /\ store = << >>
    /\ db_error = FALSE
    /\ saved = NoResult
    /\ response = NoResponse
    /\ listing = NoListing
    /\ history = << >>
    /\ text = ""
    /\ NoFields
    /\ IdleClassify
    /\ IdleText

\* for pdf_file in ...: stats["total"] += 1; report = self.extract_report(...)
StartFile ==
    /\ pc = "loop"
    /\ pending # << >>
    /\ filename' = Head(pending).name
    /\ text' = Head(pending).text
    /\ pending' = Tail(pending)
    /\ stats' = [stats EXCEPT !.total = @ + 1]
    /\ IF ExtractOutcomes[Head(pending), pads_year].exc = "none"
       THEN /\ report' = ExtractOutcomes[Head(pending), pads_year].value
            /\ pc' = "extracted"
       ELSE /\ report' = NoReport
            /\ pc' = "crashed"
    /\ UNCHANGED <<module, classifyVars, fieldVars, textVars, endpoint, pads_year, store,
                   db_error, saved, response, listing, history, directory>>

\* if report: if self.save_report(report): ... else: ...
SaveFile ==
    /\ pc = "extracted"
    /\ IsReport(report)
    /\ \E works \in BOOLEAN :
        /\ db_error' = ~ works
        /\ saved' = save_report_to_db(works)
        /\ store' = StoreAfterSave(store, report, works)
        /\ history' = IF works THEN Append(history, report) ELSE history
        /\ IF save_report_to_db(works).exc # "none"
           THEN stats' = stats /\ pc' = "crashed"
           ELSE /\ pc' = "loop"
                /\ stats' = IF save_report_to_db(works).value
                            THEN CountSuccess(stats, DetailsEntry(filename, report, "success"))
                            ELSE CountFailed(stats,
                                             DetailsEntry(filename, report, "save_failed"))
    /\ UNCHANGED <<module, text, classifyVars, fieldVars, textVars, endpoint, filename,
                   pads_year, report, response, listing, directory, pending>>

\* else: stats["failed"] += 1; ... "status": "extraction_failed"
SkipFile ==
    /\ pc = "extracted"
    /\ ~ IsReport(report)
    /\ stats' = CountFailed(stats, DetailsEntry(filename, report, "extraction_failed"))
    /\ pc' = "loop"
    /\ UNCHANGED <<module, text, classifyVars, fieldVars, textVars, reportVars,
                   directory, pending>>

\* return stats
ReturnStats ==
    /\ pc = "loop"
    /\ pending = << >>
    /\ pc' = "done"
    /\ UNCHANGED <<module, text, classifyVars, fieldVars, textVars, reportVars, dirVars>>

NextDirectory == StartFile \/ SaveFile \/ SkipFile \/ ReturnStats

SpecDirectory == InitDirectory /\ [][NextDirectory]_vars

(***************************************************************************)
(* Properties of the classifier and of the coherence validator             *)
(***************************************************************************)
TableKeywords == {EXAM_TO_SPECIALTY[i][1] : i \in DOMAIN EXAM_TO_SPECIALTY}

GroupKeywords(m) ==
    Range(brain_keywords(m)) \cup Range(orl_keywords(m))
        \cup Range(spine_keywords(m)) \cup Range(thoracic_keywords(m))

KnownKeywordOccurs(m, t) ==
    \E k \in TableKeywords \cup GroupKeywords(m) : Contains(k, t)

Combined == CombinedText(exam_text, technique_text)

\* C1: determine_specialty returns one member of the SPECIALTIES enumeration,
\* and returns "IA" when neither a table keyword nor a keyword-group keyword
\* occurs in the lowercased concatenation of its two arguments.
C1_SpecialtyInEnumeration ==
    pc # "start" =>
        /\ specialty \in Range(SPECIALTIES)
        /\ ~ KnownKeywordOccurs(module, Combined) => specialty = "IA"

C1_Witness ==
    /\ pc = "classified"
    /\ exam_text # ""
    /\ ~ KnownKeywordOccurs(module, Combined)
    /\ specialty = "IA"

\* The table keywords listed before "rachis".
BeforeRachis ==
    { "tdm cérébrale", "tdm cerebrale", "irm cérébrale", "irm cerebrale",
      "ct cérébrale", "perfusion", "carotides", "polygone de willis" }

\* C2 as stated: every text containing "rachis" is classified "Spine", every
\* text containing "tdm cérébrale" is classified "Neuroradiology Brain", and a
\* text with no known keyword gets the default, whatever else the text holds.
C2_Original ==
    pc # "start" =>
        /\ Contains("rachis", Combined) => specialty = "Spine"
        /\ Contains("tdm cérébrale", Combined) => specialty = "Neuroradiology Brain"
        /\ ~ KnownKeywordOccurs(module, Combined) => specialty = DefaultSpecialty

\* C2 amended: a text containing "rachis" is classified "Spine" provided none
\* of the table keywords listed before "rachis" occurs in it; a text containing
\* "tdm cérébrale" is always "Neuroradiology Brain"; a text with no known
\* keyword gets the default "IA".
C2_RachisUnlessEarlierKeyword ==
    pc # "start" =>
        /\ ( /\ Contains("rachis", Combined)
             /\ \A k \in BeforeRachis : ~ Contains(k, Combined) )
           => specialty = "Spine"
        /\ Contains("tdm cérébrale", Combined) => specialty = "Neuroradiology Brain"
        /\ ~ KnownKeywordOccurs(module, Combined) => specialty = "IA"

C2_Witness ==
    /\ pc = "classified"
    /\ Contains("rachis", Combined)
    /\ Contains("thorax", Combined)
    /\ Contains("sinus", Combined)
    /\ specialty = "Spine"

\* C3: the result is the specialty of the first table keyword (table order)
\* occurring in the lowercased text; with no table keyword, the first of the
\* groups brain, ORL, spine, thoracic holding an occurring keyword decides;
\* with none, the default is returned.
C3_FixedPriority ==
    pc # "start" =>
        LET t == Combined
            NoTable == \A i \in DOMAIN EXAM_TO_SPECIALTY :
                           ~ Contains(EXAM_TO_SPECIALTY[i][1], t)
            brain == \E k \in Range(brain_keywords(module)) : Contains(k, t)
            orl == \E k \in Range(orl_keywords(module)) : Contains(k, t)
            spine == \E k \in Range(spine_keywords(module)) : Contains(k, t)
            thoracic == \E k \in Range(thoracic_keywords(module)) : Contains(k, t)
        IN  /\ \A i \in DOMAIN EXAM_TO_SPECIALTY :
                ( /\ Contains(EXAM_TO_SPECIALTY[i][1], t)
                  /\ \A j \in 1..(i - 1) : ~ Contains(EXAM_TO_SPECIALTY[j][1], t) )
                => specialty = EXAM_TO_SPECIALTY[i][2]
            /\ (NoTable /\ brain) => specialty = "Neuroradiology Brain"
            /\ (NoTable /\ ~ brain /\ orl) => specialty = "Neuroradiology ORL"
            /\ (NoTable /\ ~ brain /\ ~ orl /\ spine) => specialty = "Spine"
            /\ (NoTable /\ ~ brain /\ ~ orl /\ ~ spine /\ thoracic)
                   => specialty = "Thoracic"
            /\ (NoTable /\ ~ brain /\ ~ orl /\ ~ spine /\ ~ thoracic)
                   => specialty = "IA"

C3_Witness ==
    /\ pc = "classified"
    /\ \A k \in TableKeywords : ~ Contains(k, Combined)
    /\ Contains("sinus", Combined)
    /\ Contains("lombaire", Combined)
    /\ specialty = "Neuroradiology ORL"

\* The indices of the correspondence rules violated by (exam, technique).
ViolatedRules(exam, technique) ==
    { i \in DOMAIN checks :
        /\ Contains(checks[i][1], lower(exam))
        /\ \A k \in Range(checks[i][2]) : ~ Contains(k, lower(technique)) }

\* C4: validate_exam_technique_coherence applies its rules in order: both
\* empty is coherent ("no info"); exam empty is incoherent ("exam missing");
\* technique empty is coherent ("technique missing but acceptable"); otherwise
\* the result is false, with the reason of the first violated correspondence
\* rule, iff some rule is violated.  exam "tdm" with technique "" is coherent
\* and exam "tdm" with technique "irm" is incoherent.
C4_CoherenceRules ==
    pc = "validated" =>
        LET bad == ViolatedRules(exam_text, technique_text) IN
        /\ (exam_text = "" /\ technique_text = "")
               => coherence = <<TRUE, "Aucune information">>
        /\ (exam_text = "" /\ technique_text # "")
               => coherence = <<FALSE, "Examen manquant">>
        /\ (exam_text # "" /\ technique_text = "")
               => coherence = <<TRUE, "Technique manquante mais acceptable">>
        /\ (exam_text # "" /\ technique_text # "" /\ bad = {})
               => coherence = <<TRUE, "OK">>
        /\ (exam_text # "" /\ technique_text # "" /\ bad # {})
               => /\ coherence[1] = FALSE
                  /\ coherence[2] = IncoherentReason(checks[Min(bad)][1])
        /\ (exam_text = "tdm" /\ technique_text = "") => coherence[1] = TRUE
        /\ (exam_text = "tdm" /\ technique_text = "irm") => coherence[1] = FALSE

C4_Witness ==
    /\ pc = "validated"
    /\ exam_text = "tdm"
    /\ technique_text = "irm"
    /\ coherence = <<FALSE, "'tdm' dans examen mais pas cohérent avec technique">>


(***************************************************************************)
(* Properties of extract_date                                              *)
(***************************************************************************)
\* s with every occurrence of k removed, left to right
RECURSIVE RemoveAll(_, _)
RemoveAll(k, s) ==
    LET at == {i \in 1..(Len(s) - Len(k) + 1) : SubSeq(s, i, i + Len(k) - 1) = k}
    IN  IF at = {} THEN s
        ELSE SubSeq(s, 1, Min(at) - 1)
                 \o RemoveAll(k, SubSeq(s, Min(at) + Len(k), Len(s)))

\* the only digits of t are those of occurrences of the token k
OnlyDateLikeToken(k, t) ==
    /\ Contains(k, t)
    /\ CharsOf(RemoveAll(k, t)) \cap Digits = {}

\* d = <<year, month, day>> is a date of the calendar
IsCalendarDate(d) ==
    /\ d[1] \in 1..9999
    /\ d[2] \in 1..12
    /\ d[3] >= 1
    /\ d[3] <= (CASE d[2] \in {1, 3, 5, 7, 8, 10, 12} -> 31
                  [] d[2] \in {4, 6, 9, 11} -> 30
                  [] OTHER -> IF d[1] % 400 = 0 \/ (d[1] % 4 = 0 /\ d[1] % 100 # 0)
                              THEN 29 ELSE 28)

\* C5: extract_date parses "Examen(s) du 14.03.2022" to 2022-03-14, returns
\* no date for a text whose only date-like token is "41.15.2022", and never
\* returns a value that is not a calendar date.
C5_ParsesAndRejects ==
    pc = "dated" =>
        /\ text = "Examen(s) du 14.03.2022" => exam_date = <<2022, 3, 14>>
        /\ OnlyDateLikeToken("41.15.2022", text) => exam_date = NoDate
        /\ exam_date # NoDate => IsCalendarDate(exam_date)

C5_Witness ==
    /\ pc = "dated"
    /\ text = "Examen(s) du 14.03.2022"
    /\ exam_date = <<2022, 3, 14>>

\* The matches of every pattern, as finditer yields them.
DateMatches(m, t) ==
    [p \in DOMAIN date_patterns(m) |-> FindIter(date_patterns(m)[p], t, 1, 1, IGNORECASE)]

\* C6: extract_date returns the first valid date in priority order: patterns
\* in listed order, each pattern's matches in text order, unparsable matches
\* discarded without stopping; None only when no match of any pattern parses.
C6_FirstValidInPriorityOrder ==
    pc = "dated" =>
        LET ms == DateMatches(module, text)
            cands == {c \in (DOMAIN ms) \X (1..Len(text)) : c[2] <= Len(ms[c[1]])}
            parsed(c) == ParseDateMatch(GroupText(text, ms[c[1]][c[2]], 1))
            before(b, c) == b[1] < c[1] \/ (b[1] = c[1] /\ b[2] < c[2])
        IN  /\ exam_date = NoDate <=> \A c \in cands : parsed(c) = NoDate
            /\ exam_date # NoDate =>
                   \E c \in cands :
                       /\ parsed(c) = exam_date
                       /\ \A b \in cands : before(b, c) => parsed(b) = NoDate

\* an unparsable match of the second pattern precedes the match returned, and
\* a valid match of a pattern of higher priority is returned although the
\* text starts with a date
C6_Witness ==
    /\ pc = "dated"
    /\ text = "le 31.02.2022 LE 05-06-2021"
    /\ exam_date = <<2021, 6, 5>>

\* C7: a date written year first after a date-bearing phrase ("le 2022/03/14")
\* is returned, read as year/month/day.
C7_YearFirstSwapped ==
    (pc = "dated" /\ text = "le 2022/03/14") => exam_date = <<2022, 3, 14>>

(***************************************************************************)
(* Properties of extract_patient_info                                      *)
(***************************************************************************)
\* re.search of each primary pattern on the text, case-sensitive
FullMatch == Search(FullPattern, text, 1, 5, NoFlags)
IdMatch == Search(IdPattern, text, 1, 4, NoFlags)
BaseMatch == Search(BasePattern, text, 1, 3, NoFlags)

\* the name, date of birth and age captured by match m
HasIdentity(info, m) ==
    /\ {"patient_name", "patient_dob", "patient_age"} \subseteq DOMAIN info
    /\ info.patient_name = strip(GroupText(text, m, 1))
    /\ info.patient_dob = GroupText(text, m, 2)
    /\ info.patient_age = int(GroupText(text, m, 3))

\* C8: the primary patterns are tried most specific first and the fields
\* come from the first one that matches; a text matching the five-field
\* pattern always yields patient_identifier and exam_identifier.
C8_FirstPrimaryPatternWins ==
    pc = "identified" =>
        LET full == FullMatch
            id == IdMatch
            base == BaseMatch
        IN  IF full.ok
            THEN /\ HasIdentity(patient_info, full)
                 /\ {"patient_identifier", "exam_identifier"} \subseteq DOMAIN patient_info
                 /\ patient_info.patient_identifier = GroupText(text, full, 4)
                 /\ patient_info.exam_identifier = GroupText(text, full, 5)
            ELSE IF id.ok
            THEN /\ HasIdentity(patient_info, id)
                 /\ "patient_identifier" \in DOMAIN patient_info
                 /\ patient_info.patient_identifier = GroupText(text, id, 4)
                 /\ "exam_identifier" \notin DOMAIN patient_info
            ELSE IF base.ok
            THEN /\ HasIdentity(patient_info, base)
                 /\ "exam_identifier" \notin DOMAIN patient_info
            ELSE DOMAIN patient_info \subseteq {"patient_identifier"}

\* the five-field pattern matches after a text the three-field pattern matches
C8_Witness ==
    /\ pc = "identified"
    /\ text = "O'NEIL-ROY , 03-04-1970 (52ans) DUPONT JEAN, 14.03.1950 (72 ans) / 1234567 / A123"
    /\ patient_info.patient_name = "DUPONT JEAN"
    /\ patient_info.exam_identifier = "A123"

\* re.search of each fallback pattern on the text, ignoring case
FallbackMatches ==
    << Search(id_patterns[1], text, 1, 1, IGNORECASE),
       Search(id_patterns[2], text, 1, 1, IGNORECASE),
       Search(id_patterns[3], text, 1, 1, IGNORECASE) >>

\* C9: the fallback identifier patterns are consulted only if the primary
\* patterns captured no identifier: a primary identifier is never overwritten,
\* and otherwise the first fallback pattern that matches supplies it.
C9_FallbackOnlyWithoutPrimaryIdentifier ==
    pc = "identified" =>
        LET full == FullMatch
            id == IdMatch
            fallback == FallbackMatches
            hits == {p \in DOMAIN id_patterns : fallback[p].ok}
        IN  IF full.ok
            THEN patient_info.patient_identifier = GroupText(text, full, 4)
            ELSE IF id.ok
            THEN patient_info.patient_identifier = GroupText(text, id, 4)
            ELSE IF hits = {}
            THEN "patient_identifier" \notin DOMAIN patient_info
            ELSE /\ "patient_identifier" \in DOMAIN patient_info
                 /\ patient_info.patient_identifier
                        = GroupText(text, fallback[Min(hits)], 1)

\* a primary identifier kept although a fallback pattern matches the text
C9_Witness ==
    /\ pc = "identified"
    /\ text = "MARTIN, 1/2/1960 (62 ans) / 7654321 IPP 999"
    /\ patient_info.patient_identifier = "7654321"

(***************************************************************************)
(* Properties of the section splitters                                     *)
(***************************************************************************)
\* the words one of which a text must contain, whatever the case, for the
\* splitter to find the section: the header literals of the section's patterns
HeaderWords(m, k) ==
    IF m = "app"
    THEN CASE k = "indication" -> {"indication"}
           [] k = "technique" -> {"technique"}
           [] k = "description" -> {"description", "compte"}
           [] k = "conclusion" -> {"conclusion", "impression", "résumé"}
           [] k = "signataires" -> {" ", "\t", "\n"}
    ELSE CASE k = "exam_type" -> {"examen(s)"}
           [] k = "indication" -> {"indication"}
           [] k = "technique" -> {"technique"}
           [] k = "description" -> {"description"}
           [] k = "conclusion" -> {"conclusion"}
           [] k = "validated_by" ->
                {"valid", "docteur"} \cup (IF m = "extractor" THEN {"/"} ELSE {})

\* no header of section k occurs in the text
HeaderAbsent(m, k, txt) == \A w \in HeaderWords(m, k) : ~ Contains(w, lower(txt))

\* C10: whatever the text (the empty text and a text without header included),
\* the section map returned by the splitter has every one of its section keys
\* and no other, each mapped to a string, never to None, and to the empty
\* string when the section's header does not occur in the text.
C10_AllKeysAlwaysPresent ==
    pc = "split" =>
        /\ DOMAIN sections =
             IF module = "app"
             THEN {"indication", "technique", "description", "conclusion", "signataires"}
             ELSE {"exam_type", "indication", "technique", "description", "conclusion",
                   "validated_by"}
        /\ \A k \in DOMAIN sections :
             /\ sections[k] \in STRING
             /\ sections[k] # None
             /\ HeaderAbsent(module, k, text) => sections[k] = ""

\* a text with one header: its section is filled, the sections that were not
\* found are there and empty
C10_Witness ==
    /\ pc = "split"
    /\ module = "extractor"
    /\ text = "Indication : toux"
    /\ sections["indication"] = "toux"
    /\ sections["conclusion"] = ""
    /\ sections["validated_by"] = ""

\* the key of the signatory field, and the keys of the fields that hold text
\* of the report
SignatoryKey(m) == IF m = "app" THEN "signataires" ELSE "validated_by"
ContentKeys(m) == SectionKeys(m) \ {SignatoryKey(m)}

\* none of the section headers occurs in the text
NoContentHeader(m, txt) == \A k \in ContentKeys(m) : HeaderAbsent(m, k, txt)

\* ... and none of the words that introduce a signatory either
NoRecognisedHeader(m, txt) ==
    /\ NoContentHeader(m, txt)
    /\ \A w \in (IF m = "app" THEN {"signa"} ELSE {"valid", "docteur"}) :
         ~ Contains(w, lower(txt))

BoundaryWords(m) ==
    IF m = "app"
    THEN {"indication", "technique", "description", "compte", "conclusion",
          "impression", "résumé", "signa"}
    ELSE {"examen(s)", "indication", "technique", "comparatif", "description",
          "conclusion", "valid", "docteur", "en restant", "nb :"}

\* a text with its runs of whitespace collapsed and its ends stripped
NormaliseSpace(s) == strip(Sub(Plus(Sp), " ", s, NoFlags))

StartsWith(s, w) == Len(w) <= Len(s) /\ SubSeq(s, 1, Len(w)) = w

\* the content of section k holds the header of another section that the
\* splitter found: it runs past that header
ExtendsPastHeader(m, k) ==
    \E other \in ContentKeys(m) \ {k} :
        /\ sections[other] # ""
        /\ \E w \in HeaderWords(m, other) : Contains(w, lower(sections[k]))

\* the content of section k occurs in the text and is followed there by a
\* boundary word or by the end of the text
ReachesBoundary(m, k, txt) ==
    LET whole == NormaliseSpace(txt)
        content == NormaliseSpace(sections[k])
    IN  \E i \in 1..(Len(whole) - Len(content) + 1) :
            /\ SubSeq(whole, i, i + Len(content) - 1) = content
            /\ LET after == lower(strip(SubSeq(whole, i + Len(content), Len(whole))))
               IN  after = "" \/ \E w \in BoundaryWords(m) : StartsWith(after, w)

\* C12: the content captured for a section whose header is in the text runs
\* from just after the header to the next recognized header or to the end of
\* the text: it never runs past a recognized header and never stops before one.
C12_CaptureUpToNextHeader ==
    pc = "split" =>
        \A k \in ContentKeys(module) :
            sections[k] # "" =>
                /\ ~ ExtendsPastHeader(module, k)
                /\ ReachesBoundary(module, k, text)

\* C13: run twice on the same cleaned text, the splitter returns the same
\* section map: same keys, same values, the joined signatory string included.
C13_SameMapOnRerun ==
    pc = "again" => sections = previous

(***************************************************************************)
(* Properties of the text extraction                                       *)
(***************************************************************************)
\* C14: extract_text_from_pdf invokes the OCR fallback whenever the text of
\* the primary extractor is empty or shorter than 200 characters (the primary
\* extractor having failed included), and never when it has 200 characters
\* or more.
C14_OcrIffShortText ==
    pc = "done" /\ module \in {"main", "extractor"} =>
        (ocr_invoked <=> Len(primary_text) < OcrThreshold)

\* neither the primary path nor the OCR can give any text
NothingRecoverable(m, p) ==
    IF m = "app"
    THEN \/ \A i \in 1..Len(p.pages) : ~ NotBlank(p.pages[i])
         \/ p.primary_error = 1 /\ p.secondary_error = 1
    ELSE /\ p.ocr_status # "ok"
         /\ \/ p.primary_error > 0
            \/ \A i \in 1..Len(p.pages) : ~ NotBlank(p.pages[i])

\* C15: text extraction never raises: whatever fails (primary extractor,
\* secondary extractor, missing OCR capability, OCR runtime error), it returns
\* a string, the empty one if nothing is recoverable, and when the OCR fails
\* the text of the primary path is returned unchanged.
C15_ExtractionNeverRaises ==
    pc = "done" =>
        /\ extracted.exc = "none"
        /\ extracted.value # None
        /\ extracted.value \in STRING
        /\ (module # "app" /\ pdf.ocr_status # "ok" => extracted.value = primary_text)
        /\ (NothingRecoverable(module, pdf) => extracted.value = "")

C15_Witness ==
    /\ pc = "done"
    /\ module = "extractor"
    /\ pdf.ocr_status = "error"
    /\ ocr_invoked
    /\ primary_text = "IRM du rachis"
    /\ extracted = Return("IRM du rachis")

(***************************************************************************)
(* Properties of the report pipeline and of the store                      *)
(***************************************************************************)
\* the date as eight digits: four of the year, two of the month, two of the day
YYYYMMDD(date) == ZeroPad(str(date[1] * 10000 + date[2] * 100 + date[3]), 8)

\* the three parts the identifier is made of, for the text and the file name
\* of the request
ExpectedDatePart ==
    IF extract_date(module, text) = NoDate THEN "unknown_date"
    ELSE YYYYMMDD(extract_date(module, text))

ExpectedPatientPart ==
    IF Get(extract_patient_info(text), "patient_identifier", "") = ""
    THEN "unknown_patient"
    ELSE extract_patient_info(text)["patient_identifier"]

\* C16: the record identifier is "<date>_<patient>_<stem>": the exam date as
\* YYYYMMDD or "unknown_date", the patient identifier or "unknown_patient"
\* when none or an empty one was extracted, the file name without directory
\* and extension; extract_complete_report and generate_report_id give the same
\* identifier for the same three inputs.
C16_IdentifierFormat ==
    pc = "extracted" /\ IsReport(report) =>
        /\ report.id = ExpectedDatePart \o "_" \o ExpectedPatientPart \o "_"
                           \o PathStem(filename)
        /\ report_id(extract_date(module, text), extract_patient_info(text),
                     filename, pads_year)
             = generate_report_id(extract_date(module, text),
                                  Get(extract_patient_info(text), "patient_identifier", ""),
                                  filename, pads_year)

\* the place in the history of the most recent write with the identifier of
\* the k-th write
LastWrite(k) ==
    Max({j \in 1..Len(history) : history[j].id = history[k].id})

\* C17: the store is an upsert-by-identifier map: after any sequence of
\* successful saves it holds at most one record per identifier, that record
\* has the field values of the most recent save with that identifier, and the
\* records with other identifiers are as their own most recent save left them.
C17_UpsertByIdentifier ==
    /\ \A i, j \in 1..Len(store) : i # j => store[i].id # store[j].id
    /\ \A k \in 1..Len(history) :
           \E i \in 1..Len(store) : store[i] = RowOf(history[LastWrite(k)])
    /\ \A i \in 1..Len(store) :
           \E k \in 1..Len(history) : store[i].id = history[k].id

C17_Witness ==
    /\ pc = "saved"
    /\ saved = Return(TRUE)
    /\ Len(history) = 3
    /\ history[1].id # history[2].id
    /\ history[2].id = history[3].id
    /\ history[2] # history[3]
    /\ store = <<RowOf(history[1]), RowOf(history[3])>>

\* C18: a persistence failure does not fail the extraction: when the write to
\* the store raises, save_report_to_db returns False instead of raising, and
\* the extract endpoints still answer with status 200 and the fully extracted
\* record, its saved_to_db being False.
C18_SaveFailureStillAnswers ==
    db_error =>
        /\ saved.exc = "none"
        /\ saved.value = FALSE
        /\ pc = "answered" /\ module = "main" =>
              /\ response.status = 200
              /\ response.body.report
                   = WithSavedFlag(extract_complete_report(module, text, filename,
                                                           hashseed, pads_year),
                                   FALSE)
              /\ response.body.report.raw_text = text

C18_Witness ==
    /\ pc = "answered"
    /\ module = "main"
    /\ endpoint = "extract_from_pdf"
    /\ db_error
    /\ store = << >>
    /\ response.status = 200
    /\ response.body.report.id = "20220314_1234567_scan"
    /\ response.body.report.saved_to_db = FALSE

\* C19: an empty or too short text is an explicit failure without side effect:
\* when the text is empty or has fewer than 100 characters,
\* extract_complete_report returns an error result and the endpoints answer
\* with a failure, extract_report returns None, no record is built, no save is
\* attempted and the store stays as it was.
C19_ShortTextFailsWithoutEffect ==
    Len(text) < MinTextLength =>
        /\ ~ IsReport(report)
        /\ saved = NoResult
        /\ store \in {<< >>, <<EarlierRow>>}
        /\ store = history
        /\ pc = "extracted" =>
              IF module = "main" THEN DOMAIN report = {"error"} ELSE report = NoReport
        /\ pc = "answered" =>
              IF module = "main"
              THEN response.status = 400 /\ DOMAIN response.body = {"error"}
              ELSE response = [file |-> PathName(filename), status |-> "extraction_failed"]

C19_Witness ==
    /\ pc = "answered"
    /\ module = "main"
    /\ endpoint = "extract_from_text"
    /\ Len(text) = MinTextLength - 1
    /\ report = [error |-> "Texte trop court ou vide"]
    /\ response = ErrorResponse(400, "Texte trop court ou vide")
    /\ store = <<EarlierRow>>

\* the number YYYYMMDD of a stored exam date, written year-month-day
DateNumber(date_str) ==
    int(Split(date_str, "-")[1]) * 10000 + int(Split(date_str, "-")[2]) * 100
        + int(Split(date_str, "-")[3])

\* the rows of the answer of get_reports
ListedRows == listing.body.reports

\* C20: round trip through the store: a record saved with save_report_to_db
\* and then listed by get_reports comes back with the same identifier and the
\* same values of the summary fields, the listing is ordered by exam date
\* descending, and the total reported is the number of stored records.
C20_RoundTripListing ==
    pc = "listed" /\ listing.status = 200 =>
        /\ \A i \in 1..Len(ListedRows) :
               \E k \in 1..Len(history) :
                   ListedRows[i] = Summary(history[LastWrite(k)])
        /\ listing.body.pagination.limit < 0 /\ listing.body.pagination.offset = 0 =>
               \A k \in 1..Len(history) :
                   \E i \in 1..Len(ListedRows) : ListedRows[i].id = history[k].id
        /\ \A i, j \in 1..Len(ListedRows) :
               (/\ i < j
                /\ ListedRows[i].exam_date # None
                /\ ListedRows[j].exam_date # None)
               => DateNumber(ListedRows[i].exam_date) >= DateNumber(ListedRows[j].exam_date)
        /\ listing.body.pagination.total = Len(store)
        /\ listing.body.pagination.total
             = Cardinality({history[k].id : k \in 1..Len(history)})


(***************************************************************************)
(* Properties of process_directory                                         *)
(***************************************************************************)
\* the files the loop has gone through
FilesDone == Len(directory) - Len(pending)

\* the file yields a report: nothing raises and the text is long enough
Extractable(f) == ~ f.raises /\ Len(f.text) >= 100

\* the positions of the details entries with the given status
EntriesWith(status) ==
    {i \in 1..Len(stats.details) : stats.details[i].status = status}

\* C21: after every file, and whatever fails, total = success + failed =
\* the number of details entries = the number of files gone through; the
\* i-th entry is the one of the i-th file and its status is "success",
\* "save_failed" or "extraction_failed", the last exactly for the files that
\* yield no report; success counts exactly the reports that were written;
\* no failure ends the loop, which returns only when no file is left.
C21_CountersConsistent ==
    stats # << >> =>
        /\ pc # "crashed"
        /\ pc = "done" => pending = << >>
        /\ pc \in {"loop", "done"} =>
            /\ stats.total = stats.success + stats.failed
            /\ stats.total = Len(stats.details)
            /\ stats.total = FilesDone
            /\ \A i \in 1..Len(stats.details) :
                /\ stats.details[i].file = PathName(directory[i].name)
                /\ stats.details[i].status \in {"success", "save_failed", "extraction_failed"}
                /\ stats.details[i].status = "extraction_failed" <=> ~ Extractable(directory[i])
            /\ stats.success = Cardinality(EntriesWith("success"))
            /\ stats.success = Len(history)
            /\ {stats.details[i].id : i \in EntriesWith("success")}
                   = {history[k].id : k \in 1..Len(history)}
            /\ Len(store) = Len(history)

\* a run that went on to write a report after an exception in one file, a
\* text too short in another and a failed save of a third
C21_Witness ==
    /\ stats # << >>
    /\ pc = "done"
    /\ \E i, j, k, l \in 1..Len(directory) :
        /\ i < l /\ j < l /\ k < l
        /\ directory[i].raises
        /\ ~ directory[j].raises /\ Len(directory[j].text) < 100
        /\ stats.details[k].status = "save_failed"
        /\ stats.details[l].status = "success"
    /\ stats.success = 1
    /\ stats.failed = 3


=============================================================================
